---- MODULE Spec2Model ----
(***************************************************************************)
(* MicroSQL (src/src/index.ts): a regex-parsed SQL subset over tables      *)
(* stored as JSON arrays of flat records.                                  *)
(*                                                                         *)
(* A string is a sequence of one-character strings, so that the scanners   *)
(* and the regular expressions of the source can be modelled character by  *)
(* character.  A record is a sequence of [k |-> key, v |-> value] pairs in *)
(* key insertion order, each key occurring once.                           *)
(***************************************************************************)
EXTENDS Integers, Sequences, FiniteSets, TLC

VARIABLES tables, stmt, returned, before, lastInsert, pc, arg, out

vars == <<tables, stmt, returned, before, lastInsert, pc, arg, out>>

(***************************************************************************)
(* Characters                                                              *)
(***************************************************************************)
LowerSeq == <<"a","b","c","d","e","f","g","h","i","j","k","l","m",
              "n","o","p","q","r","s","t","u","v","w","x","y","z">>

UpperSeq == <<"A","B","C","D","E","F","G","H","I","J","K","L","M",
              "N","O","P","Q","R","S","T","U","V","W","X","Y","Z">>

DigitSeq == <<"0","1","2","3","4","5","6","7","8","9">>

\* the printable ASCII characters in code order, from the space (code 32) on
\* (the backquote, code 96, is left out of the model's alphabet)
AsciiSeq == <<" ","!","\"","#","$","%","&","'","(",")","*","+",",","-",".","/">>
            \o DigitSeq \o <<":",";","<","=",">","?","@">> \o UpperSeq
            \o <<"[","\\","]","^","_","(backquote)">> \o LowerSeq \o <<"{","|","}","~">>

IndexIn(s, c) == CHOOSE i \in 1..Len(s) : s[i] = c

\* String.prototype.charCodeAt for the characters of the model
charCode(c) == IF c = "\n" THEN 10 ELSE IF c = "\t" THEN 9 ELSE 31 + IndexIn(AsciiSeq, c)

\* String.prototype.toUpperCase on one character
isLower(c) ==
  c \in {"a","b","c","d","e","f","g","h","i","j","k","l","m",
         "n","o","p","q","r","s","t","u","v","w","x","y","z"}

isUpper(c) ==
  c \in {"A","B","C","D","E","F","G","H","I","J","K","L","M",
         "N","O","P","Q","R","S","T","U","V","W","X","Y","Z"}

upperChar(c) == IF isLower(c) THEN UpperSeq[IndexIn(LowerSeq, c)] ELSE c

\* the regular expression classes \s, \w, \d and .
isSpace(c) == c \in {" ", "\n", "\t"}

isDigit(c) == c \in {"0","1","2","3","4","5","6","7","8","9"}

isWord(c) == isLower(c) \/ isUpper(c) \/ isDigit(c) \/ c = "_"

isDot(c) == c /= "\n"

isQuote(c) == c \in {"\"", "'"}

(***************************************************************************)
(* Strings                                                                 *)
(***************************************************************************)
\* String.prototype.substring(from) / slice, 1-based and end-exclusive
Sub(s, from, to) == SubSeq(s, from, to - 1)

RECURSIVE trimStart(_)
trimStart(s) == IF s /= <<>> /\ isSpace(Head(s)) THEN trimStart(Tail(s)) ELSE s

RECURSIVE trimEnd(_)
trimEnd(s) ==
  IF s /= <<>> /\ isSpace(s[Len(s)]) THEN trimEnd(SubSeq(s, 1, Len(s) - 1)) ELSE s

\* String.prototype.trim
trim(s) == trimEnd(trimStart(s))

\* String.prototype.toUpperCase
toUpperCase(s) == [i \in 1..Len(s) |-> upperChar(s[i])]

startsWith(s, c) == s /= <<>> /\ s[1] = c

endsWith(s, c) == s /= <<>> /\ s[Len(s)] = c

\* the text with its quotes left on
keepQuotes(s) == s

\* s.replace(/^["']|["']$/g, ""): one leading and one trailing quote character
\* are removed, each on its own
stripQuotes(s) ==
  SubSeq(s,
         IF s /= <<>> /\ isQuote(s[1]) THEN 2 ELSE 1,
         IF Len(s) > 1 /\ isQuote(s[Len(s)]) THEN Len(s) - 1
         ELSE IF Len(s) = 1 /\ isQuote(s[1]) THEN 0
         ELSE Len(s))

(***************************************************************************)
(* Regular expressions.  The source parses with JavaScript regular         *)
(* expressions, every one of them with the i flag.  A pattern is a tree of *)
(* the nodes below; Match runs the backtracking matcher of                 *)
(* RegExp.prototype.exec on it: alternatives left to right, greedy         *)
(* quantifiers longest first, lazy quantifiers shortest first, and the     *)
(* first start position at which the whole pattern matches wins.  The      *)
(* quantifiers of the source all repeat a single character or class.       *)
(***************************************************************************)
Chr(c) == [t |-> "chr", c |-> c]

Cls(k) == [t |-> "cls", k |-> k]

Lit(str) == [t |-> "lit", s |-> str]

Cat(rs) == [t |-> "seq", rs |-> rs]

Alt(rs) == [t |-> "alt", rs |-> rs]

Cap(n, r) == [t |-> "cap", n |-> n, r |-> r]

\* x* and x*? for a single-character x, x+ and x+? likewise
Star(r) == [t |-> "star", r |-> r, min |-> 0, greedy |-> TRUE]

LazyStar(r) == [t |-> "star", r |-> r, min |-> 0, greedy |-> FALSE]

Plus(r) == [t |-> "star", r |-> r, min |-> 1, greedy |-> TRUE]

LazyPlus(r) == [t |-> "star", r |-> r, min |-> 1, greedy |-> FALSE]

Empty == Cat(<<>>)

Opt(r) == Alt(<<r, Empty>>)

Bos == [t |-> "bos"]

Eos == [t |-> "eos"]

\* the character classes the source's patterns use
inClass(k, c) ==
  CASE k = "s" -> isSpace(c)
    [] k = "S" -> ~isSpace(c)
    [] k = "w" -> isWord(c)
    [] k = "d" -> isDigit(c)
    [] k = "dot" -> isDot(c)
    [] k = "quote" -> isQuote(c)
    [] k = "notquote" -> ~isQuote(c)
    [] k = "notrparen" -> c /= ")"

\* one character against a single-character node; letters compare without case
charMatches(r, c) ==
  IF r.t = "chr" THEN upperChar(c) = upperChar(r.c) ELSE inClass(r.k, c)

litAt(lit, str, pos) ==
  /\ pos + Len(lit) - 1 <= Len(str)
  /\ \A i \in 1..Len(lit) : upperChar(str[pos + i - 1]) = upperChar(lit[i])

\* the number of consecutive characters from lo to hi that the node matches,
\* counted from lo; the range is halved at every step, so that the evaluation
\* nests no deeper than the logarithm of its length
RECURSIVE runBetween(_, _, _, _)
runThrough(left, r, str, lo, hi) ==
  IF left = (lo + hi) \div 2 - lo + 1
  THEN left + runBetween(r, str, (lo + hi) \div 2 + 1, hi)
  ELSE left

runBetween(r, str, lo, hi) ==
  IF lo > hi THEN 0
  ELSE IF lo = hi THEN (IF charMatches(r, str[lo]) THEN 1 ELSE 0)
  ELSE runThrough(runBetween(r, str, lo, (lo + hi) \div 2), r, str, lo, hi)

\* the number of consecutive characters from pos on that the node matches
runLength(r, str, pos) == runBetween(r, str, pos, Len(str))

SetMax(S) == CHOOSE x \in S : \A y \in S : y <= x

SetMin(S) == CHOOSE x \in S : \A y \in S : x <= y

NoCap == [ok |-> FALSE, b |-> 0, e |-> 0]

NoMatch == [ok |-> FALSE, pos |-> 0, start |-> 0, caps |-> <<>>]

\* Backtrack(k, str, st) matches the continuation k, the nodes still to be
\* matched in order, from the state st on.  orElse is the first way when it
\* matched and otherwise the continuation k.  A quantifier takes the first of
\* its lengths, in its order (longest first when greedy, shortest first when
\* lazy), after which the rest matches: good is the set of the lengths after
\* which it does.
RECURSIVE Backtrack(_, _, _)
orElse(first, k, str, st) == IF first.ok THEN first ELSE Backtrack(k, str, st)

quantified(good, rest, str, st, greedy) ==
  IF good = {} THEN NoMatch
  ELSE Backtrack(rest, str,
                 [st EXCEPT !.pos = @ + (IF greedy THEN SetMax(good) ELSE SetMin(good))])

Backtrack(k, str, st) ==
  IF k = <<>> THEN st
  ELSE CASE Head(k).t \in {"chr", "cls"} ->
              IF st.pos <= Len(str) /\ charMatches(Head(k), str[st.pos])
              THEN Backtrack(Tail(k), str, [st EXCEPT !.pos = @ + 1]) ELSE NoMatch
         [] Head(k).t = "lit" ->
              IF litAt(Head(k).s, str, st.pos)
              THEN Backtrack(Tail(k), str, [st EXCEPT !.pos = @ + Len(Head(k).s)])
              ELSE NoMatch
         [] Head(k).t = "bos" ->
              IF st.pos = 1 THEN Backtrack(Tail(k), str, st) ELSE NoMatch
         [] Head(k).t = "eos" ->
              IF st.pos = Len(str) + 1 THEN Backtrack(Tail(k), str, st) ELSE NoMatch
         [] Head(k).t = "seq" -> Backtrack(Head(k).rs \o Tail(k), str, st)
         [] Head(k).t = "alt" ->
              IF Head(k).rs = <<>> THEN NoMatch
              ELSE orElse(Backtrack(<<Head(Head(k).rs)>> \o Tail(k), str, st),
                          <<Alt(Tail(Head(k).rs))>> \o Tail(k), str, st)
         [] Head(k).t = "cap" ->
              Backtrack(<<[t |-> "open", n |-> Head(k).n], Head(k).r,
                          [t |-> "close", n |-> Head(k).n]>> \o Tail(k), str, st)
         [] Head(k).t = "open" ->
              Backtrack(Tail(k), str,
                        [st EXCEPT !.caps[Head(k).n] = [ok |-> FALSE, b |-> st.pos, e |-> 0]])
         [] Head(k).t = "close" ->
              Backtrack(Tail(k), str,
                        [st EXCEPT !.caps[Head(k).n] = [ok |-> TRUE, b |-> @.b, e |-> st.pos]])
         [] Head(k).t = "star" ->
              quantified({n \in Head(k).min..runLength(Head(k).r, str, st.pos) :
                            Backtrack(Tail(k), str, [st EXCEPT !.pos = @ + n]).ok},
                         Tail(k), str, st, Head(k).greedy)

\* the match from the first of the start positions lo..hi from which the
\* pattern matches; the range is halved at every step
RECURSIVE MatchFrom(_, _, _, _, _)
orElseFrom(m, re, str, ncaps, lo, hi) ==
  IF m.ok THEN m ELSE MatchFrom(re, str, ncaps, lo, hi)

MatchFrom(re, str, ncaps, lo, hi) ==
  IF lo > hi THEN NoMatch
  ELSE IF lo = hi
  THEN Backtrack(<<re>>, str,
                 [ok |-> TRUE, pos |-> lo, start |-> lo, caps |-> [i \in 1..ncaps |-> NoCap]])
  ELSE orElseFrom(MatchFrom(re, str, ncaps, lo, (lo + hi) \div 2),
                  re, str, ncaps, (lo + hi) \div 2 + 1, hi)

\* str.match(re) for a pattern without the g flag: the leftmost match
Match(re, str, ncaps) == MatchFrom(re, str, ncaps, 1, Len(str) + 1)

\* capture group n of a match: [def |-> FALSE] stands for undefined (and for
\* any group of a failed match, which the handlers never read)
Group(m, str, n) ==
  IF m.ok /\ m.caps[n].ok THEN [def |-> TRUE, s |-> Sub(str, m.caps[n].b, m.caps[n].e)]
  ELSE [def |-> FALSE, s |-> <<>>]

(***************************************************************************)
(* The patterns of the source                                              *)
(***************************************************************************)
\* /SELECT (.+?) FROM (\w+)(?: WHERE (.*?))?(?: ORDER BY (\w+)(?: (ASC|DESC))?)?(?: LIMIT (\d+))?$/i
SelectRe ==
  Cat(<<Lit(<<"S","E","L","E","C","T"," ">>), Cap(1, LazyPlus(Cls("dot"))), Lit(<<" ","F","R","O","M"," ">>),
        Cap(2, Plus(Cls("w"))),
        Opt(Cat(<<Lit(<<" ","W","H","E","R","E"," ">>), Cap(3, LazyStar(Cls("dot")))>>)),
        Opt(Cat(<<Lit(<<" ","O","R","D","E","R"," ","B","Y"," ">>), Cap(4, Plus(Cls("w"))),
                  Opt(Cat(<<Chr(" "), Cap(5, Alt(<<Lit(<<"A","S","C">>), Lit(<<"D","E","S","C">>)>>))>>))>>)),
        Opt(Cat(<<Lit(<<" ","L","I","M","I","T"," ">>), Cap(6, Plus(Cls("d")))>>)),
        Eos>>)

\* /INSERT INTO (\w+)\s*\((.+?)\)\s*VALUES\s*\((.+)\)/i
InsertRe ==
  Cat(<<Lit(<<"I","N","S","E","R","T"," ","I","N","T","O"," ">>), Cap(1, Plus(Cls("w"))), Star(Cls("s")), Chr("("),
        Cap(2, LazyPlus(Cls("dot"))), Chr(")"), Star(Cls("s")), Lit(<<"V","A","L","U","E","S">>),
        Star(Cls("s")), Chr("("), Cap(3, Plus(Cls("dot"))), Chr(")")>>)

\* /DELETE FROM (\w+)(?: WHERE (.+))?$/i
DeleteRe ==
  Cat(<<Lit(<<"D","E","L","E","T","E"," ","F","R","O","M"," ">>), Cap(1, Plus(Cls("w"))),
        Opt(Cat(<<Lit(<<" ","W","H","E","R","E"," ">>), Cap(2, Plus(Cls("dot")))>>)), Eos>>)

\* /UPDATE (\w+)\s+SET\s+(.+?)(?:\s+WHERE\s+(.+))?$/i
UpdateRe ==
  Cat(<<Lit(<<"U","P","D","A","T","E"," ">>), Cap(1, Plus(Cls("w"))), Plus(Cls("s")), Lit(<<"S","E","T">>),
        Plus(Cls("s")), Cap(2, LazyPlus(Cls("dot"))),
        Opt(Cat(<<Plus(Cls("s")), Lit(<<"W","H","E","R","E">>), Plus(Cls("s")),
                  Cap(3, Plus(Cls("dot")))>>)),
        Eos>>)

\* /(\w+)\s*(=|>=|<=|>|<|LIKE|IN)\s*(\([^\)]+\)|["'][^"']*["']|\S+)/i
ConditionRe ==
  Cat(<<Cap(1, Plus(Cls("w"))), Star(Cls("s")),
        Cap(2, Alt(<<Chr("="), Lit(<<">","=">>), Lit(<<"<","=">>), Chr(">"), Chr("<"),
                     Lit(<<"L","I","K","E">>), Lit(<<"I","N">>)>>)),
        Star(Cls("s")),
        Cap(3, Alt(<<Cat(<<Chr("("), Plus(Cls("notrparen")), Chr(")")>>),
                     Cat(<<Cls("quote"), Star(Cls("notquote")), Cls("quote")>>),
                     Plus(Cls("S"))>>))>>)

\* new RegExp(`\\s+${operator}\\s+`, "i")
OperatorRe(operator) == Cat(<<Plus(Cls("s")), Lit(operator), Plus(Cls("s"))>>)

(***************************************************************************)
(* Values, numbers and records                                             *)
(***************************************************************************)
\* JavaScript's undefined: a value that is no string
Undefined == <<"(undefined)">>

\* The names that every record inherits from Object.prototype: __proto__ is
\* Object.prototype itself and every other name a native function.
ObjectPrototype ==
  { <<"c","o","n","s","t","r","u","c","t","o","r">>,
    <<"_","_","d","e","f","i","n","e","G","e","t","t","e","r","_","_">>,
    <<"_","_","d","e","f","i","n","e","S","e","t","t","e","r","_","_">>,
    <<"h","a","s","O","w","n","P","r","o","p","e","r","t","y">>,
    <<"_","_","l","o","o","k","u","p","G","e","t","t","e","r","_","_">>,
    <<"_","_","l","o","o","k","u","p","S","e","t","t","e","r","_","_">>,
    <<"i","s","P","r","o","t","o","t","y","p","e","O","f">>,
    <<"p","r","o","p","e","r","t","y","I","s","E","n","u","m","e","r","a","b","l","e">>,
    <<"t","o","S","t","r","i","n","g">>,
    <<"v","a","l","u","e","O","f">>,
    <<"_","_","p","r","o","t","o","_","_">>,
    <<"t","o","L","o","c","a","l","e","S","t","r","i","n","g">> }

\* the value that a record inherits under a name: a value that is no string
Inherited(key) == <<"(inherited)">> \o key

isInherited(v) == v /= <<>> /\ v[1] = "(inherited)"

\* String(v): a string is itself; an inherited function is its source text,
\* where the function under constructor has the name Object, and
\* Object.prototype is [object Object]
String(v) ==
  IF v = Undefined THEN <<"u","n","d","e","f","i","n","e","d">>
  ELSE IF ~isInherited(v) THEN v
  ELSE IF Tail(v) = <<"_","_","p","r","o","t","o","_","_">> THEN <<"[","o","b","j","e","c","t"," ","O","b","j","e","c","t","]">>
  ELSE <<"f","u","n","c","t","i","o","n"," ">>
       \o (IF Tail(v) = <<"c","o","n","s","t","r","u","c","t","o","r">> THEN <<"O","b","j","e","c","t">> ELSE Tail(v))
       \o <<"(",")"," ","{"," ","[","n","a","t","i","v","e"," ","c","o","d","e","]"," ","}">>

RECURSIVE digitsValue(_, _)
digitsValue(s, base) ==
  IF s = <<>> THEN 0
  ELSE digitsValue(SubSeq(s, 1, Len(s) - 1), base) * base
       + (IF isDigit(s[Len(s)]) THEN IndexIn(DigitSeq, s[Len(s)]) - 1
          ELSE 9 + IndexIn(UpperSeq, upperChar(s[Len(s)])))

\* A number is a double: NaN, an infinity (inf = 1 or -1), or
\* sign * mant * 2^exp.  mant is a natural below 2^53 written in limbs of 15
\* bits, the least limb first and the last limb not 0, so that <<>> is 0; it
\* is at least 2^52 unless exp = -1074, the exponent of the least doubles.
NaN == [nan |-> TRUE, inf |-> 0, sign |-> 1, mant |-> <<>>, exp |-> 0]

Finite(sign, mant, exp) == [nan |-> FALSE, inf |-> 0, sign |-> sign, mant |-> mant, exp |-> exp]

Infinite(sign) == [nan |-> FALSE, inf |-> sign, sign |-> sign, mant |-> <<>>, exp |-> 0]

\* Naturals in limbs are worked on by halves, so that the steps nest no
\* deeper than the logarithm of their length.

\* a without its leading zero limbs
bigTrim(a) == SubSeq(a, 1, SetMax({0} \cup {i \in 1..Len(a) : a[i] /= 0}))

\* the limbs lo..hi of a * m + b * k + c, followed by the carry out of them,
\* for naturals a and b in limbs and a small m, k and c
RECURSIVE limbsOf(_, _, _, _, _, _, _)
limbsJoin(left, a, m, b, k, mid, hi) ==
  SubSeq(left, 1, Len(left) - 1) \o limbsOf(a, m, b, k, mid + 1, hi, left[Len(left)])

limbsOf(a, m, b, k, lo, hi, c) ==
  IF lo = hi
  THEN << ((IF lo <= Len(a) THEN a[lo] * m ELSE 0)
           + (IF lo <= Len(b) THEN b[lo] * k ELSE 0) + c) % 32768,
          ((IF lo <= Len(a) THEN a[lo] * m ELSE 0)
           + (IF lo <= Len(b) THEN b[lo] * k ELSE 0) + c) \div 32768 >>
  ELSE limbsJoin(limbsOf(a, m, b, k, lo, (lo + hi) \div 2, c), a, m, b, k, (lo + hi) \div 2, hi)

\* a * m + c
bigTimes(a, m, c) ==
  IF a = <<>> THEN (IF c = 0 THEN <<>> ELSE <<c>>)
  ELSE bigTrim(limbsOf(a, m, <<>>, 0, 1, Len(a), c))

\* a + b * k for k = 1, and for k = -1 where a >= b
bigPlus(a, b, k) ==
  IF a = <<>> THEN b
  ELSE bigTrim(limbsOf(a, 1, b, k, 1, IF Len(a) < Len(b) THEN Len(b) ELSE Len(a), 0))

RECURSIVE intPower(_, _)
intPower(b, n) == IF n <= 0 THEN 1 ELSE b * intPower(b, n - 1)

\* a * base^n for a base of digits
RECURSIVE bigPower(_, _, _)
bigPower(a, base, n) ==
  IF a = <<>> \/ n <= 0 THEN a
  ELSE IF n <= 3 THEN bigTimes(a, intPower(base, n), 0)
  ELSE bigPower(bigPower(a, base, n \div 2), base, n - n \div 2)

\* a * 2^n
bigShift(a, n) ==
  IF a = <<>> THEN <<>> ELSE [i \in 1..(n \div 15) |-> 0] \o bigTimes(a, intPower(2, n % 15), 0)

\* a < b on naturals in limbs
bigLess(a, b) ==
  \/ Len(a) < Len(b)
  \/ /\ Len(a) = Len(b)
     /\ \E i \in 1..Len(a) : a[i] < b[i] /\ \A j \in (i + 1)..Len(a) : a[j] = b[j]

\* the number of binary digits of a
bitLength(a) ==
  IF a = <<>> THEN 0
  ELSE 15 * (Len(a) - 1)
       + (CHOOSE n \in 1..15 : intPower(2, n - 1) <= a[Len(a)] /\ a[Len(a)] < intPower(2, n))

\* One step of the division of d.rem by den: the binary digit of the quotient
\* that stands for step = den * 2^bit, added to d.quo; the digit is 0 when
\* d.rem is less than step.
divideStep(d, step, less) ==
  [quo |-> bigTimes(d.quo, 2, IF less THEN 0 ELSE 1),
   rem |-> IF less THEN d.rem ELSE bigPlus(d.rem, step, -1)]

\* the binary digits hi down to lo of the quotient; they are zeros once
\* nothing remains
RECURSIVE divideSteps(_, _, _, _)
divideSteps(d, den, hi, lo) ==
  IF d.rem = <<>> THEN [quo |-> bigShift(d.quo, hi - lo + 1), rem |-> <<>>]
  ELSE IF hi = lo THEN divideStep(d, bigShift(den, hi), bigLess(d.rem, bigShift(den, hi)))
  ELSE divideSteps(divideSteps(d, den, hi, (hi + lo) \div 2 + 1), den, (hi + lo) \div 2, lo)

\* the quotient and the remainder of num by den, for a quotient below 2^53
bigDivide(num, den) ==
  IF den = <<1>> THEN [quo |-> num, rem |-> <<>>]
  ELSE divideSteps([quo |-> <<>>, rem |-> num], den, 52, 0)

\* the double of a mantissa that was rounded: 2^53 is 2^52 one exponent up,
\* and 2^1024 or more is an infinity
roundedDouble(sign, mant, exp) ==
  IF exp + bitLength(mant) > 1024 THEN Infinite(sign)
  ELSE IF bitLength(mant) > 53 THEN Finite(sign, <<0, 0, 0, 128>>, exp + 1)
  ELSE Finite(sign, mant, exp)

\* the quotient rounded to the nearest natural, a tie to the even one
roundHalfEven(sign, d, den, exp) ==
  roundedDouble(sign,
                bigTimes(d.quo, 1,
                         IF \/ bigLess(den, bigShift(d.rem, 1))
                            \/ bigShift(d.rem, 1) = den /\ d.quo /= <<>> /\ d.quo[1] % 2 = 1
                         THEN 1 ELSE 0),
                exp)

\* the exponent of the double: 52 below the binary order of num / den, which
\* is size or size - 1, and -1074 at least
exponentOf(num, den, size) ==
  IF bigLess(bigShift(num, IF size < 0 THEN 0 - size ELSE 0),
             bigShift(den, IF size > 0 THEN size ELSE 0))
  THEN (IF size - 53 < -1074 THEN -1074 ELSE size - 53)
  ELSE (IF size - 52 < -1074 THEN -1074 ELSE size - 52)

\* the double nearest to sign * num / den for naturals num > 0 and den > 0
\* (ECMAScript 6.1.6.1, the Number value for a mathematical value): with
\* exp the exponent, the one of num and den that exp asks for is scaled by the
\* power of 2 and the quotient is rounded
toDouble(sign, num, den, exp) ==
  roundHalfEven(sign,
                bigDivide(bigShift(num, IF exp < 0 THEN 0 - exp ELSE 0),
                          bigShift(den, IF exp > 0 THEN exp ELSE 0)),
                bigShift(den, IF exp > 0 THEN exp ELSE 0),
                exp)

\* the natural that the digits lo..hi of s are in a base
RECURSIVE digitsBig(_, _, _, _)
digitsBig(s, lo, hi, base) ==
  IF hi - lo < 3 THEN bigTimes(<<>>, base, digitsValue(SubSeq(s, lo, hi), base))
  ELSE bigPlus(bigPower(digitsBig(s, lo, (lo + hi) \div 2, base), base, hi - (lo + hi) \div 2),
               digitsBig(s, (lo + hi) \div 2 + 1, hi, base), 1)

\* s without its leading zeros
dropZeros(s) == SubSeq(s, 1 + runLength(Chr("0"), s, 1), Len(s))

\* sign * num / den as a double
ratioDouble(sign, num, den) ==
  toDouble(sign, num, den, exponentOf(num, den, bitLength(num) - bitLength(den)))

\* the number sign * digits * 10^e for digits, without leading zeros, in a
\* base: 0 for no digits, and for decimal digits an infinity from 10^309 on
\* and 0 below 10^-324, where no double is nearer
numberFrom(sign, digits, base, e) ==
  IF digits = <<>> THEN Finite(sign, <<>>, -1074)
  ELSE IF base = 10 /\ Len(digits) + e > 309 THEN Infinite(sign)
  ELSE IF base = 10 /\ Len(digits) + e < -323 THEN Finite(sign, <<>>, -1074)
  ELSE ratioDouble(sign,
                   bigPower(digitsBig(digits, 1, Len(digits), base), 10, e),
                   bigPower(<<1>>, 10, 0 - e))

\* a < b on numbers; false when either is NaN, and -0 is not below 0.  Of two
\* doubles of one sign the one of the lesser exponent, and at one exponent of
\* the lesser mantissa, is the nearer to 0.
numLess(a, b) ==
  /\ ~a.nan /\ ~b.nan
  /\ IF a.inf /= 0 \/ b.inf /= 0 THEN a.inf < b.inf
     ELSE IF a.sign /= b.sign THEN a.sign < b.sign /\ (a.mant /= <<>> \/ b.mant /= <<>>)
     ELSE \/ a.sign * a.exp < b.sign * b.exp
          \/ a.exp = b.exp /\ bigLess(IF a.sign = 1 THEN a.mant ELSE b.mant,
                                      IF a.sign = 1 THEN b.mant ELSE a.mant)

numEq(a, b) == ~a.nan /\ ~b.nan /\ ~numLess(a, b) /\ ~numLess(b, a)

litExact(lit, str, pos) ==
  /\ pos + Len(lit) - 1 <= Len(str)
  /\ \A i \in 1..Len(lit) : str[pos + i - 1] = lit[i]

\* The longest prefix of s that is a StrDecimalLiteral (ECMAScript 7.1.4.1):
\* [+-] (Infinity | digits [. [digits]] [exponent] | . digits [exponent]).
\* The scan runs in steps, each handing what it found to the next: the
\* exponent digits, the exponent mark and sign, the digits after the point,
\* the digits before it, the sign.  len is the length of the prefix, 0 when
\* there is none; shift is the number of digits after the point.
\* An exponent of ten digits or more is beyond every text's length and stands
\* as 999999999.
scanExponentDigits(s, sign, digits, shift, q, eSign, eFrom, eLen) ==
  LET t == dropZeros(Sub(s, eFrom, eFrom + eLen))
  IN  [len |-> IF eLen > 0 THEN eFrom + eLen - 1 ELSE q - 1,
       num |-> numberFrom(sign, dropZeros(digits), 10,
                          eSign * (IF Len(t) > 9 THEN 999999999 ELSE digitsValue(t, 10)) - shift)]

\* the exponent part at q: e or E, a sign or none, and digits; without digits
\* there is no exponent part and the number ends before q
scanExponentSign(s, sign, digits, shift, q, marked, signed) ==
  scanExponentDigits(s, sign, digits, shift, q,
                     IF signed /\ s[q + 1] = "-" THEN -1 ELSE 1,
                     IF signed THEN q + 2 ELSE q + 1,
                     IF marked THEN runLength(Cls("d"), s, IF signed THEN q + 2 ELSE q + 1)
                     ELSE 0)

scanExponent(s, sign, digits, shift, q) ==
  scanExponentSign(s, sign, digits, shift, q,
                   q <= Len(s) /\ s[q] \in {"e", "E"},
                   q <= Len(s) /\ s[q] \in {"e", "E"}
                     /\ q + 1 <= Len(s) /\ s[q + 1] \in {"+", "-"})

scanFraction(s, sign, p, intLen, hasDot, fracLen) ==
  IF intLen = 0 /\ ~(hasDot /\ fracLen > 0) THEN [len |-> 0, num |-> NaN]
  ELSE scanExponent(s, sign,
                    Sub(s, p, p + intLen)
                      \o (IF hasDot
                          THEN Sub(s, p + intLen + 1, p + intLen + 1 + fracLen)
                          ELSE <<>>),
                    fracLen,
                    IF hasDot THEN p + intLen + 1 + fracLen ELSE p + intLen)

scanDigits(s, sign, p, intLen) ==
  IF litExact(<<"I","n","f","i","n","i","t","y">>, s, p)
  THEN [len |-> p + 7, num |-> Infinite(sign)]
  ELSE scanFraction(s, sign, p, intLen,
                    p + intLen <= Len(s) /\ s[p + intLen] = ".",
                    IF p + intLen <= Len(s) /\ s[p + intLen] = "."
                    THEN runLength(Cls("d"), s, p + intLen + 1) ELSE 0)

scanDecimal(s) ==
  scanDigits(s,
             IF s /= <<>> /\ s[1] = "-" THEN -1 ELSE 1,
             IF s /= <<>> /\ s[1] \in {"+", "-"} THEN 2 ELSE 1,
             runLength(Cls("d"), s, IF s /= <<>> /\ s[1] \in {"+", "-"} THEN 2 ELSE 1))

\* parseFloat(v): the number the longest numeric prefix of String(v) denotes,
\* after leading white space
parseFloat(v) == scanDecimal(trimStart(String(v))).num

isRadixDigit(c, base) ==
  \/ isDigit(c) /\ IndexIn(DigitSeq, c) - 1 < base
  \/ base = 16 /\ upperChar(c) \in {"A", "B", "C", "D", "E", "F"}

\* the radix that a 0x, 0o or 0b prefix announces, 0 when there is none
radixOf(t) ==
  IF Len(t) < 3 \/ t[1] /= "0" THEN 0
  ELSE CASE upperChar(t[2]) = "X" -> 16
         [] upperChar(t[2]) = "O" -> 8
         [] upperChar(t[2]) = "B" -> 2
         [] OTHER -> 0

wholeDecimal(t, d) == IF d.len = Len(t) THEN d.num ELSE NaN

numberOf(t, base) ==
  IF t = <<>> THEN Finite(1, <<>>, -1074)
  ELSE IF base /= 0
  THEN (IF \A i \in 3..Len(t) : isRadixDigit(t[i], base)
        THEN numberFrom(1, dropZeros(Sub(t, 3, Len(t) + 1)), base, 0) ELSE NaN)
  ELSE wholeDecimal(t, scanDecimal(t))

\* Number(v): the whole trimmed text of the value must be a numeric literal,
\* and the empty text is 0; undefined and the inherited values are NaN, as
\* their texts are
Number(v) == numberOf(trim(String(v)), radixOf(trim(String(v))))

\* A coerced value: a number, a string, an inherited object, or undefined
\* isNaN(num) ? val : num
coerced(val, num) ==
  IF num.nan
  THEN [t |-> IF isInherited(val) THEN "object" ELSE "string", num |-> NaN, str |-> val]
  ELSE [t |-> "number", num |-> num, str |-> <<>>]

\* no conversion: every value that is there stays the string it is
coerceNothing(val) ==
  IF val = Undefined THEN [t |-> "undefined", num |-> NaN, str |-> <<>>]
  ELSE [t |-> IF isInherited(val) THEN "object" ELSE "string", num |-> NaN, str |-> val]

\* coerceValue(val): undefined stays, a string that Number() accepts becomes
\* that number, any other value stays what it is
coerceValue(val) ==
  IF val = Undefined THEN [t |-> "undefined", num |-> NaN, str |-> <<>>]
  ELSE coerced(val, Number(val))

\* a < b on strings: by UTF-16 code units, a proper prefix first
RECURSIVE strLess(_, _)
strLess(a, b) ==
  IF b = <<>> THEN FALSE
  ELSE IF a = <<>> THEN TRUE
  ELSE IF a[1] = b[1] THEN strLess(Tail(a), Tail(b))
  ELSE charCode(a[1]) < charCode(b[1])

\* aVal < bVal on coerced values (the abstract relational comparison): an
\* object stands as its string; two strings compare as strings; otherwise
\* both sides are converted to numbers, where undefined and a value kept by
\* coerceValue are NaN
coercedLess(a, b) ==
  IF a.t \in {"string", "object"} /\ b.t \in {"string", "object"}
  THEN strLess(String(a.str), String(b.str))
  ELSE numLess(a.num, b.num)

\* the row has a key of its own
Has(row, key) == \E i \in 1..Len(row) : row[i].k = key

\* row[field]: the value of the row's own key, else what the row inherits
\* under the name from Object.prototype, else undefined
Get(row, key) ==
  IF Has(row, key) THEN row[CHOOSE i \in 1..Len(row) : row[i].k = key].v
  ELSE IF key \in ObjectPrototype THEN Inherited(key)
  ELSE Undefined

\* An object lists its array indices first, in ascending numeric order, and
\* then the other keys in the order of their creation.  An array index is
\* the canonical decimal text of a natural below 2^32 - 1.
isIndexKey(key) ==
  /\ key /= <<>>
  /\ \A i \in 1..Len(key) : isDigit(key[i])
  /\ Len(key) = 1 \/ key[1] /= "0"
  /\ Len(key) < 10 \/ (Len(key) = 10 /\ strLess(key, <<"4","2","9","4","9","6","7","2","9","5">>))

\* The row with the key key of its own holding value: a key the row has
\* keeps its place; a new array index goes after the indices below it (the
\* shorter texts, and of the texts of its length those that are before it as
\* strings); any other new key goes last.
Define(row, key, value) ==
  IF Has(row, key)
  THEN [i \in 1..Len(row) |-> IF row[i].k = key THEN [k |-> key, v |-> value] ELSE row[i]]
  ELSE IF isIndexKey(key)
  THEN LET n == Cardinality({i \in 1..Len(row) :
                               /\ isIndexKey(row[i].k)
                               /\ \/ Len(row[i].k) < Len(key)
                                  \/ Len(row[i].k) = Len(key) /\ strLess(row[i].k, key)})
       IN  SubSeq(row, 1, n) \o <<[k |-> key, v |-> value]>> \o SubSeq(row, n + 1, Len(row))
  ELSE Append(row, [k |-> key, v |-> value])

\* row[key] = value.  Under __proto__, when the row has no such key of its
\* own, the assignment reaches the setter that the row inherits, which makes
\* no key: it changes the prototype for an object and does nothing for a
\* string or undefined; the one object a statement can assign is
\* Object.prototype, the prototype the row has.
Put(row, key, value) ==
  IF key = <<"_","_","p","r","o","t","o","_","_">> /\ ~Has(row, key) THEN row
  ELSE Define(row, key, value)

\* a merge that keeps the assignments and drops the record's own fields
SpreadOnly(row, updates) == updates

\* { ...row, ...updates }: the keys of the row, then every key of updates,
\* defined as the new object's own
RECURSIVE Spread(_, _)
Spread(row, updates) ==
  IF updates = <<>> THEN row
  ELSE Spread(Define(row, updates[1].k, updates[1].v), Tail(updates))

\* JSON.stringify leaves out the keys whose value is undefined or a function
\* (the prototype object itself is the value of no key: no assignment
\* stores it)
SelectSeqRow(row) == SelectSeq(row, LAMBDA f : f.v /= Undefined /\ ~isInherited(f.v))

\* JSON.parse(JSON.stringify(data)): a key whose value is undefined or a
\* function is dropped
jsonRoundTrip(data) == [i \in 1..Len(data) |-> SelectSeqRow(data[i])]

(***************************************************************************)
(* The splitters and the WHERE evaluator                                   *)
(***************************************************************************)
\* if (current.trim()) result.push(current.trim())
pushRest(result, current) ==
  IF trim(current) /= <<>> THEN Append(result, trim(current)) ELSE result

\* the loop body of splitRespectingQuotes on character st.i, delimiter ","
splitQuotesStep(st, str) ==
  IF isQuote(str[st.i]) /\ ~st.inQuotes
  THEN [st EXCEPT !.inQuotes = TRUE, !.quoteChar = str[st.i],
                  !.current = Append(@, str[st.i]), !.i = @ + 1]
  ELSE IF str[st.i] = st.quoteChar /\ st.inQuotes
  THEN [st EXCEPT !.inQuotes = FALSE, !.quoteChar = "",
                  !.current = Append(@, str[st.i]), !.i = @ + 1]
  ELSE IF str[st.i] = "," /\ ~st.inQuotes
  THEN [st EXCEPT !.result = Append(@, trim(st.current)), !.current = <<>>, !.i = @ + 1]
  ELSE [st EXCEPT !.current = Append(@, str[st.i]), !.i = @ + 1]

\* for (let i = 0; i < str.length; i++): the loop body, run from the loop
\* state st on for as long as its index st.i is in lo..hi.  The range is
\* halved at every step and the first half is finished before the second
\* begins, so that the evaluation nests no deeper than the logarithm of the
\* length.
RECURSIVE splitQuotesLoop(_, _, _, _)
splitQuotesLoop(str, lo, hi, st) ==
  IF lo > hi \/ st.i > hi THEN st
  ELSE IF lo = hi THEN (IF st.i = lo THEN splitQuotesStep(st, str) ELSE st)
  ELSE splitQuotesLoop(str, (lo + hi) \div 2 + 1, hi,
                       splitQuotesLoop(str, lo, (lo + hi) \div 2, st))

splitQuotesEnd(st) == pushRest(st.result, st.current)

\* a split at every comma, quoted or not
splitAtEveryComma(str) ==
  LET commas == {i \in 1..Len(str) : str[i] = ","}
      at(k) == IF k = 0 THEN 0
               ELSE IF k > Cardinality(commas) THEN Len(str) + 1
               ELSE CHOOSE i \in commas : Cardinality({j \in commas : j < i}) = k - 1
      parts == [k \in 1..(Cardinality(commas) + 1) |->
                  trim(SubSeq(str, at(k - 1) + 1, at(k) - 1))]
  IN  IF parts[Len(parts)] = <<>> THEN SubSeq(parts, 1, Len(parts) - 1) ELSE parts

splitRespectingQuotes(str) ==
  splitQuotesEnd(splitQuotesLoop(str, 1, Len(str),
                                 [i |-> 1, result |-> <<>>, current |-> <<>>,
                                  inQuotes |-> FALSE, quoteChar |-> ""]))

\* remaining.match(regex) with match.index === 0, for remaining =
\* clause.substring(i): the pattern matches at character i of the clause;
\* the value is the length of the match, 0 when there is none
matchLength(m, i) == IF m.ok THEN m.pos - i ELSE 0

operatorAt(clause, operator, i) ==
  matchLength(Backtrack(<<OperatorRe(operator)>>, clause,
                        [ok |-> TRUE, pos |-> i, start |-> i, caps |-> <<>>]), i)

\* a scanner that keeps the depth and takes no notice of quotes
splitLogicalDepth(st, clause) ==
  IF clause[st.i] = "(" THEN [st EXCEPT !.depth = @ + 1]
  ELSE IF clause[st.i] = ")" THEN [st EXCEPT !.depth = @ - 1]
  ELSE st

\* The loop body of splitLogicalOperator on character st.i, in its steps.
\* splitLogicalQuotes brings the quote state and the depth up to date with
\* the character.  splitLogicalAt then looks for the operator at st.i when
\* that is outside quotes and at depth 0, and splitLogicalNext closes the
\* current part and jumps over the operator when it was found (len > 0:
\* i += match[0].length - 1; continue), and otherwise takes the character.
splitLogicalQuotes(st, clause) ==
  IF isQuote(clause[st.i]) /\ ~st.inQuotes /\ (st.i = 1 \/ clause[st.i - 1] /= "\\")
  THEN [st EXCEPT !.inQuotes = TRUE, !.quoteChar = clause[st.i]]
  ELSE IF /\ clause[st.i] = st.quoteChar /\ st.inQuotes
          /\ (st.i = 1 \/ clause[st.i - 1] /= "\\")
  THEN [st EXCEPT !.inQuotes = FALSE, !.quoteChar = ""]
  ELSE IF clause[st.i] = "(" /\ ~st.inQuotes THEN [st EXCEPT !.depth = @ + 1]
  ELSE IF clause[st.i] = ")" /\ ~st.inQuotes THEN [st EXCEPT !.depth = @ - 1]
  ELSE st

splitLogicalNext(st, clause, len) ==
  IF len > 0
  THEN [st EXCEPT !.parts = Append(@, trim(st.current)), !.current = <<>>, !.i = @ + len]
  ELSE [st EXCEPT !.current = Append(@, clause[st.i]), !.i = @ + 1]

splitLogicalAt(st, clause) ==
  splitLogicalNext(st, clause,
                   IF ~st.inQuotes /\ st.depth = 0
                   THEN operatorAt(clause, st.operator, st.i) ELSE 0)

\* for (let i = 0; i < clause.length; i++): the loop body, run from the loop
\* state st on for as long as its index st.i is in lo..hi; a character the
\* body jumped over is passed by.  The range is halved as in splitQuotesLoop.
RECURSIVE splitLogicalLoop(_, _, _, _)
splitLogicalLoop(clause, lo, hi, st) ==
  IF lo > hi \/ st.i > hi THEN st
  ELSE IF lo = hi
  THEN (IF st.i = lo THEN splitLogicalAt(splitLogicalQuotes(st, clause), clause) ELSE st)
  ELSE splitLogicalLoop(clause, (lo + hi) \div 2 + 1, hi,
                        splitLogicalLoop(clause, lo, (lo + hi) \div 2, st))

splitLogicalEnd(st, clause) ==
  IF Len(pushRest(st.parts, st.current)) > 0 THEN pushRest(st.parts, st.current)
  ELSE <<clause>>

splitLogicalOperator(clause, operator) ==
  splitLogicalEnd(splitLogicalLoop(clause, 1, Len(clause),
                                   [i |-> 1, parts |-> <<>>, current |-> <<>>,
                                    inQuotes |-> FALSE, quoteChar |-> "", depth |-> 0,
                                    operator |-> operator]),
                  clause)

\* s.startsWith("(") && s.endsWith(")"): the condition of the unwrapping
\* loops
wrapped(s) == startsWith(s, "(") /\ endsWith(s, ")")

\* a loop body that leaves the text as it is
unwrapNothing(s) == s

\* s.slice(1, -1).trim(): the body of the unwrapping loops
unwrap(s) == trim(SubSeq(s, 2, Len(s) - 1))

\* no unwrapping: the text as it is
keepParens(s) == s

\* while (s.startsWith("(") && s.endsWith(")")) s = s.slice(1, -1).trim()
RECURSIVE stripParens(_)
stripParens(s) ==
  IF startsWith(s, "(") /\ endsWith(s, ")")
  THEN stripParens(trim(SubSeq(s, 2, Len(s) - 1)))
  ELSE s

\* actual == value for a value of a row and a string: two strings are equal
\* when they are the same string, an inherited object equals the string that
\* String() makes of it, and undefined equals no string
looseEquals(actual, value) == actual /= Undefined /\ String(actual) = value

\* the pattern of a LIKE whose literal is compiled with no escaping of the
\* dot
likeUnescaped(value) ==
  Cat(<<Bos>>
      \o [i \in 1..Len(value) |->
            IF value[i] = "%" THEN Star(Cls("dot"))
            ELSE IF value[i] \in {"_", "."} THEN Cls("dot")
            ELSE Chr(value[i])]
      \o <<Eos>>)

\* the pattern LIKE compiles its literal into: every regular expression
\* metacharacter escaped, then % as .* and _ as . between ^ and $
likeRe(value) ==
  Cat(<<Bos>>
      \o [i \in 1..Len(value) |->
            IF value[i] = "%" THEN Star(Cls("dot"))
            ELSE IF value[i] = "_" THEN Cls("dot")
            ELSE Chr(value[i])]
      \o <<Eos>>)

\* rawValue.replace(/^\(|\)$/g, "")
stripListParens(s) ==
  SubSeq(s,
         IF startsWith(s, "(") THEN 2 ELSE 1,
         IF Len(s) > 1 /\ endsWith(s, ")") THEN Len(s) - 1
         ELSE IF s = <<")">> THEN 0
         ELSE Len(s))

\* The parsing of a statement does not read the store, and the evaluation of
\* a filter reads its row only once the filter text is taken apart.  Each
\* handler is therefore modelled in two steps, the parse of the text (the
\* regular expression and the splitters) and the run of the parsed statement
\* against the store.

\* the parts of a leaf condition: expr.match(...) and its destructuring
conditionOf(match, expr) ==
  [ok |-> match.ok,
   field |-> Group(match, expr, 1).s,
   op |-> toUpperCase(Group(match, expr, 2).s),
   rawValue |-> Group(match, expr, 3).s]

parseCondition(expr) == conditionOf(Match(ConditionRe, expr, 3), expr)

\* list.includes(value) for the tokens of an IN list, each without its quotes
listIncludes(list, value) == \E i \in 1..Len(list) : stripQuotes(list[i]) = value

\* comparisons that are all strict
compareStrictly(op, a, b) ==
  CASE op \in {<<">">>, <<">","=">>} -> numLess(b, a)
    [] op \in {<<"<">>, <<"<","=">>} -> numLess(a, b)

\* parseFloat(actual) op parseFloat(rawValue) for the four comparisons; a
\* comparison with NaN is false
compareFloats(op, a, b) ==
  CASE op = <<">">> -> numLess(b, a)
    [] op = <<"<">> -> numLess(a, b)
    [] op = <<">", "=">> -> numLess(b, a) \/ numEq(a, b)
    [] op = <<"<", "=">> -> numLess(a, b) \/ numEq(a, b)

\* the switch of evalCondition on a parsed condition and actual = row[field]
testActual(c, actual) ==
  IF ~c.ok THEN FALSE
  ELSE CASE c.op = <<"=">> -> looseEquals(actual, stripQuotes(c.rawValue))
         [] c.op \in {<<">">>, <<"<">>, <<">", "=">>, <<"<", "=">>} ->
              compareFloats(c.op, parseFloat(actual), parseFloat(c.rawValue))
         [] c.op = <<"L","I","K","E">> ->
              Match(likeRe(stripQuotes(c.rawValue)), String(actual), 0).ok
         [] c.op = <<"I","N">> ->
              listIncludes(splitRespectingQuotes(stripListParens(c.rawValue)),
                           String(actual))
         [] OTHER -> FALSE

testCondition(c, row) == testActual(c, Get(row, c.field))

evalCondition(expr, row) == testCondition(parseCondition(expr), row)

\* andParts.every(expr => ...): every term without its wrapping parentheses
conditionsOf(andParts) ==
  [j \in 1..Len(andParts) |-> parseCondition(stripParens(trim(andParts[j])))]

\* the conditions of one OR branch: the branch without its wrapping
\* parentheses, split on AND
andConditions(orPart) ==
  conditionsOf(splitLogicalOperator(stripParens(trim(orPart)), <<"A","N","D">>))

\* orParts.some(orPart => ...)
branchesOf(orParts) == [i \in 1..Len(orParts) |-> andConditions(orParts[i])]

\* the filter taken apart: the OR branches, each the conditions of its terms
whereTerms(whereClause) == branchesOf(splitLogicalOperator(whereClause, <<"O","R">>))

\* only the first OR branch decides
testFirstBranch(terms, row) ==
  \A j \in 1..Len(terms[1]) : testCondition(terms[1][j], row)

\* orParts.some(orPart => andParts.every(expr => evalCondition(expr, row)))
testTerms(terms, row) ==
  \E i \in 1..Len(terms) : \A j \in 1..Len(terms[i]) : testCondition(terms[i][j], row)

evalWhere(whereClause, row) == testTerms(whereTerms(whereClause), row)

(***************************************************************************)
(* The store and the statement handlers.  tbls maps the name of every      *)
(* table file that exists to the rows the file holds.  The run of a        *)
(* statement has the value [tables |-> the store afterwards, ret |-> what  *)
(* the call returns or throws].                                            *)
(***************************************************************************)
load(tbls, table) == IF table \in DOMAIN tbls THEN tbls[table] ELSE <<>>

\* a save that leaves the one table in the store
saveAlone(tbls, table, data) == [x \in {table} |-> jsonRoundTrip(data)]

save(tbls, table, data) ==
  [x \in DOMAIN tbls \cup {table} |-> IF x = table THEN jsonRoundTrip(data) ELSE tbls[x]]

Rows(rows) == [kind |-> "rows", rows |-> rows, updated |-> 0, msg |-> "", word |-> <<>>]

OneRow(row) == [kind |-> "row", rows |-> <<row>>, updated |-> 0, msg |-> "", word |-> <<>>]

Updated(n) == [kind |-> "updated", rows |-> <<>>, updated |-> n, msg |-> "", word |-> <<>>]

Nothing == [kind |-> "undefined", rows |-> <<>>, updated |-> 0, msg |-> "", word |-> <<>>]

Error(msg, word) ==
  [kind |-> "error", rows |-> <<>>, updated |-> 0, msg |-> msg, word |-> word]

\* rows.filter(row => this.evalWhere(whereClause, row)), or its complement
RECURSIVE filterRows(_, _, _)
filterRows(rows, terms, keep) ==
  IF rows = <<>> THEN <<>>
  ELSE (IF testTerms(terms, Head(rows)) = keep THEN <<Head(rows)>> ELSE <<>>)
       \o filterRows(Tail(rows), terms, keep)

\* the comparator of the ORDER BY sort: negative, zero or positive
compareCoerced(aVal, bVal, desc) ==
  IF coercedLess(aVal, bVal) THEN (IF desc THEN 1 ELSE -1)
  ELSE IF coercedLess(bVal, aVal) THEN (IF desc THEN -1 ELSE 1)
  ELSE 0

compareRows(a, b, orderField, desc) ==
  compareCoerced(coerceValue(Get(a, orderField)), coerceValue(Get(b, orderField)), desc)

PermsOf(n) == {p \in [1..n -> 1..n] : \A i, j \in 1..n : p[i] = p[j] => i = j}

\* the comparator on every pair of the rows: c[i][j] = compareRows(rows[i], rows[j])
comparisons(rows, orderField, desc) ==
  [i \in 1..Len(rows) |-> [j \in 1..Len(rows) |->
     compareRows(rows[i], rows[j], orderField, desc)]]

\* A comparator is consistent on the rows (ECMAScript 23.1.3.30.2) when its
\* "equal" and "before" relations order them the same way in every chain.
consistent(c) ==
  \A i, j, k \in 1..Len(c) :
    /\ c[i][j] = 0 /\ c[j][k] = 0 => c[i][k] = 0
    /\ c[i][j] < 0 /\ c[j][k] < 0 => c[i][k] < 0
    /\ c[i][j] = 0 /\ c[j][k] < 0 => c[i][k] < 0
    /\ c[i][j] < 0 /\ c[j][k] = 0 => c[i][k] < 0

consistentOn(rows, orderField, desc) == consistent(comparisons(rows, orderField, desc))

\* the permutation p puts the rows in the comparator's order and keeps the
\* rows it holds equal in the order they had
stable(c, p) ==
  \A i, j \in 1..Len(c) :
    i < j => c[p[i]][p[j]] < 0 \/ (c[p[i]][p[j]] = 0 /\ p[i] < p[j])

sortedBy(c) ==
  IF consistent(c) THEN {p \in PermsOf(Len(c)) : stable(c, p)} ELSE PermsOf(Len(c))

\* rows.sort(comparator): Array.prototype.sort is stable, and with a consistent
\* comparator its result is the one stable ordering; with an inconsistent one
\* the order is implementation-defined, any permutation of the rows.
sortOutcomes(rows, orderField, desc) ==
  {[i \in 1..Len(rows) |-> rows[p[i]]] : p \in sortedBy(comparisons(rows, orderField, desc))}

\* columns.split(","): a plain split, a field per comma
RECURSIVE splitCommas(_, _)
splitCommas(str, current) ==
  IF str = <<>> THEN <<current>>
  ELSE IF Head(str) = "," THEN <<current>> \o splitCommas(Tail(str), <<>>)
  ELSE splitCommas(Tail(str), Append(current, Head(str)))

\* a projection that keeps the record's own fields, in their stored order
projectStored(r, fields, obj) ==
  SelectSeq(r, LAMBDA e : \E j \in 1..Len(fields) : fields[j] = e.k)

\* for (const f of fields) obj[f] = r[f]
RECURSIVE project(_, _, _)
project(r, fields, obj) ==
  IF fields = <<>> THEN obj
  ELSE project(r, Tail(fields), Put(obj, Head(fields), Get(r, Head(fields))))

\* the filter of a statement taken apart, nothing when it has none
termsOf(whereClause) == IF whereClause /= <<>> THEN whereTerms(whereClause) ELSE <<>>

\* sql.match(...) in select and what is derived from the text alone.  A limit
\* of ten digits or more is beyond every table's length and stands as
\* 999999999: slice keeps every row under it.
selectOf(match, sql) ==
  [cmd |-> "select", ok |-> match.ok,
   table |-> Group(match, sql, 2).s,
   filtered |-> Group(match, sql, 3).s /= <<>>,
   terms |-> termsOf(Group(match, sql, 3).s),
   ordered |-> Group(match, sql, 4).def,
   orderField |-> Group(match, sql, 4).s,
   desc |-> Group(match, sql, 5).def /\ toUpperCase(Group(match, sql, 5).s) = <<"D","E","S","C">>,
   limited |-> Group(match, sql, 6).def,
   limit |-> IF Len(dropZeros(Group(match, sql, 6).s)) > 9 THEN 999999999
             ELSE digitsValue(dropZeros(Group(match, sql, 6).s), 10),
   star |-> trim(Group(match, sql, 1).s) = <<"*">>,
   fields |-> [i \in 1..Len(splitCommas(Group(match, sql, 1).s, <<>>)) |->
                trim(splitCommas(Group(match, sql, 1).s, <<>>)[i])]]

parseSelect(sql) == selectOf(Match(SelectRe, sql, 6), sql)

\* a LIMIT that keeps one row more than it names
limitOneMore(rows, p) ==
  IF p.limited THEN SubSeq(rows, 1, IF p.limit + 1 < Len(rows) THEN p.limit + 1 ELSE Len(rows))
  ELSE rows

\* if (limitStr) rows = rows.slice(0, parseInt(limitStr, 10))
limitRows(rows, p) ==
  IF p.limited THEN SubSeq(rows, 1, IF p.limit < Len(rows) THEN p.limit ELSE Len(rows))
  ELSE rows

\* a SELECT that writes the rows it loaded back to the table's file
selectAndSave(tbls, p) ==
  IF ~p.ok
  THEN {[tables |-> tbls, ret |-> Error("Invalid SELECT syntax", <<>>)]}
  ELSE {[tables |-> save(tbls, p.table, load(tbls, p.table)),
         ret |-> Rows(load(tbls, p.table))]}

\* the rows a SELECT may return: one sequence, unless the sort's order is
\* implementation-defined
select(tbls, p) ==
  LET loaded == load(tbls, p.table)
      filtered == IF p.filtered THEN filterRows(loaded, p.terms, TRUE) ELSE loaded
      sorted == IF p.ordered THEN sortOutcomes(filtered, p.orderField, p.desc)
                ELSE {filtered}
      projected(rows) == IF ~p.star
                         THEN [i \in 1..Len(rows) |-> project(rows[i], p.fields, <<>>)]
                         ELSE rows
  IN  IF ~p.ok
      THEN {[tables |-> tbls, ret |-> Error("Invalid SELECT syntax", <<>>)]}
      ELSE {[tables |-> tbls, ret |-> Rows(projected(limitRows(rows, p)))] : rows \in sorted}

\* a pairing that ends with the shorter of the two lists
RECURSIVE zipShorter(_, _, _, _)
zipShorter(columns, values, i, row) ==
  IF i > Len(columns) \/ i > Len(values) THEN row
  ELSE zipShorter(columns, values, i + 1, Put(row, columns[i], values[i]))

\* columns.forEach((c, i) => (row[c] = values[i]))
RECURSIVE zipRow(_, _, _, _)
zipRow(columns, values, i, row) ==
  IF i > Len(columns) THEN row
  ELSE zipRow(columns, values, i + 1,
              Put(row, columns[i], IF i <= Len(values) THEN values[i] ELSE Undefined))

\* .map(v => v.replace(/^["']|["']$/g, ""))
unquoted(split) == [i \in 1..Len(split) |-> stripQuotes(split[i])]

\* a value list split without the quotes of its values taken off
insertValuesRaw(vals) == splitRespectingQuotes(vals)

\* this.splitRespectingQuotes(vals).map(v => v.replace(/^["']|["']$/g, ""))
insertValues(vals) == unquoted(splitRespectingQuotes(vals))

\* sql.match(...) in insert and the row built from the text
insertOf(match, sql) ==
  [cmd |-> "insert", ok |-> match.ok,
   table |-> Group(match, sql, 1).s,
   row |-> IF match.ok
           THEN zipRow(splitRespectingQuotes(Group(match, sql, 2).s),
                       insertValues(Group(match, sql, 3).s), 1, <<>>)
           ELSE <<>>]

parseInsert(sql) == insertOf(Match(InsertRe, sql, 3), sql)

\* an insert that appends and saves before it looks at the match
insertUnchecked(tbls, p) ==
  [tables |-> save(tbls, p.table, Append(load(tbls, p.table), p.row)),
   ret |-> IF ~p.ok THEN Error("Invalid INSERT syntax", <<>>) ELSE OneRow(p.row)]

insert(tbls, p) ==
  IF ~p.ok THEN [tables |-> tbls, ret |-> Error("Invalid INSERT syntax", <<>>)]
  ELSE [tables |-> save(tbls, p.table, Append(load(tbls, p.table), p.row)),
        ret |-> OneRow(p.row)]

\* sql.match(...) in delete
deleteOf(match, sql) ==
  [cmd |-> "delete", ok |-> match.ok,
   table |-> Group(match, sql, 1).s,
   filtered |-> Group(match, sql, 2).s /= <<>>,
   terms |-> termsOf(Group(match, sql, 2).s)]

parseDelete(sql) == deleteOf(Match(DeleteRe, sql, 2), sql)

\* a delete that keeps the rows the filter matches
deleteMatching(tbls, p) ==
  IF ~p.ok THEN [tables |-> tbls, ret |-> Error("Invalid DELETE syntax", <<>>)]
  ELSE [tables |-> save(tbls, p.table,
                        IF p.filtered THEN filterRows(load(tbls, p.table), p.terms, TRUE)
                        ELSE <<>>),
        ret |-> Nothing]

delete(tbls, p) ==
  IF ~p.ok THEN [tables |-> tbls, ret |-> Error("Invalid DELETE syntax", <<>>)]
  ELSE [tables |-> save(tbls, p.table,
                        IF p.filtered THEN filterRows(load(tbls, p.table), p.terms, FALSE)
                        ELSE <<>>),
        ret |-> Nothing]

\* pair.indexOf("="), 0 when the pair has no "="
eqIndexOf(pair) ==
  IF \E i \in 1..Len(pair) : pair[i] = "="
  THEN SetMin({i \in 1..Len(pair) : pair[i] = "="})
  ELSE 0

\* the body of pairs.forEach: a pair without "=" is passed over
setPair(updates, pair, eqIndex) ==
  IF eqIndex = 0 THEN updates
  ELSE Put(updates, trim(SubSeq(pair, 1, eqIndex - 1)),
           stripQuotes(trim(SubSeq(pair, eqIndex + 1, Len(pair)))))

\* pairs.forEach(...): the assignment map of a SET clause
RECURSIVE setUpdates(_, _)
setUpdates(pairs, updates) ==
  IF pairs = <<>> THEN updates
  ELSE setUpdates(Tail(pairs), setPair(updates, Head(pairs), eqIndexOf(Head(pairs))))

\* the assignment map of a SET clause: its pairs, split at the commas
assignments(setClause) == setUpdates(splitRespectingQuotes(setClause), <<>>)

\* sql.match(...) in update and the assignment map
updateOf(match, sql) ==
  [cmd |-> "update", ok |-> match.ok,
   table |-> Group(match, sql, 1).s,
   updates |-> IF match.ok THEN assignments(Group(match, sql, 2).s) ELSE <<>>,
   filtered |-> Group(match, sql, 3).s /= <<>>,
   terms |-> termsOf(Group(match, sql, 3).s)]

parseUpdate(sql) == updateOf(Match(UpdateRe, sql, 3), sql)

\* the rows the filter does not match, and after them the rows it matches,
\* overlaid
updateRowsLast(loaded, p) ==
  [data |-> SelectSeq(loaded, LAMBDA r : ~(~p.filtered \/ testTerms(p.terms, r)))
              \o [i \in 1..Len(SelectSeq(loaded, LAMBDA r : ~p.filtered \/ testTerms(p.terms, r))) |->
                    Spread(SelectSeq(loaded, LAMBDA r : ~p.filtered \/ testTerms(p.terms, r))[i],
                           p.updates)],
   count |-> Cardinality({i \in 1..Len(loaded) :
                            ~p.filtered \/ testTerms(p.terms, loaded[i])})]

\* data.map(row => ...): the rows, every row the filter matches overlaid
\* with the assignments, and the number of those rows
updateRows(loaded, p) ==
  [data |-> [i \in 1..Len(loaded) |->
               IF ~p.filtered \/ testTerms(p.terms, loaded[i])
               THEN Spread(loaded[i], p.updates) ELSE loaded[i]],
   count |-> Cardinality({i \in 1..Len(loaded) :
                            ~p.filtered \/ testTerms(p.terms, loaded[i])})]

update(tbls, p) ==
  IF ~p.ok THEN [tables |-> tbls, ret |-> Error("Invalid UPDATE syntax", <<>>)]
  ELSE [tables |-> save(tbls, p.table, updateRows(load(tbls, p.table), p).data),
        ret |-> Updated(updateRows(load(tbls, p.table), p).count)]

\* sql.trim().split(/\s+/)[0]: the text before the first white space
firstWord(sql) == SubSeq(sql, 1, runLength(Cls("S"), sql, 1))

\* the dispatch of query() on the first word, and the handler's parse
dispatch(sql, command) ==
  IF command = <<"S","E","L","E","C","T">> THEN parseSelect(sql)
  ELSE IF command = <<"I","N","S","E","R","T">> THEN parseInsert(sql)
  ELSE IF command = <<"D","E","L","E","T","E">> THEN parseDelete(sql)
  ELSE IF command = <<"U","P","D","A","T","E">> THEN parseUpdate(sql)
  ELSE [cmd |-> "unsupported", ok |-> FALSE, command |-> command]

\* a dispatch on the first word as it is written
parseQueryAsWritten(sql) == dispatch(trim(sql), firstWord(trim(sql)))

\* query(): the first word of the trimmed text, in upper case, decides
parseQuery(sql) == dispatch(trim(sql), toUpperCase(firstWord(trim(sql))))

\* the outcomes of a parsed statement on the store tbls
runQuery(tbls, p) ==
  CASE p.cmd = "select" -> select(tbls, p)
    [] p.cmd = "insert" -> {insert(tbls, p)}
    [] p.cmd = "delete" -> {delete(tbls, p)}
    [] p.cmd = "update" -> {update(tbls, p)}
    [] OTHER -> {[tables |-> tbls, ret |-> Error("Unsupported SQL", p.command)]}

\* the outcomes of query(sql) on the store tbls
query(tbls, sql) == runQuery(tbls, parseQuery(sql))

(***************************************************************************)
(* The statements the model submits.  A statement is kept with the parts   *)
(* it was written from (table, columns, value tokens, filter, ...), and    *)
(* query() is given only its text.                                         *)
(***************************************************************************)
RECURSIVE Join(_, _)
Join(ss, sep) ==
  IF ss = <<>> THEN <<>>
  ELSE IF Len(ss) = 1 THEN ss[1]
  ELSE ss[1] \o sep \o Join(Tail(ss), sep)

Statement(kind, table, cols, vals, where, order, dir, limit, text) ==
  [kind |-> kind, table |-> table, cols |-> cols, vals |-> vals, where |-> where,
   order |-> order, dir |-> dir, limit |-> limit, text |-> text]

\* INSERT INTO table (cols) VALUES (vals)
InsertStatement(table, cols, vals) ==
  Statement("insert", table, cols, vals, <<>>, <<>>, <<>>, <<>>,
            <<"I","N","S","E","R","T"," ","I","N","T","O"," ">> \o table \o <<" ","(">> \o Join(cols, <<","," ">>) \o <<")"," ","V","A","L","U","E","S"," ","(">>
              \o Join(vals, <<","," ">>) \o <<")">>)

WhereText(where) == IF where = <<>> THEN <<>> ELSE <<" ","W","H","E","R","E"," ">> \o where

\* UPDATE table SET col = val, ... [WHERE where]
UpdateStatement(table, cols, vals, where) ==
  Statement("update", table, cols, vals, where, <<>>, <<>>, <<>>,
            <<"U","P","D","A","T","E"," ">> \o table \o <<" ","S","E","T"," ">>
              \o Join([i \in 1..Len(cols) |-> cols[i] \o <<" ","="," ">> \o vals[i]], <<","," ">>)
              \o WhereText(where))

\* DELETE FROM table [WHERE where]
DeleteStatement(table, where) ==
  Statement("delete", table, <<>>, <<>>, where, <<>>, <<>>, <<>>,
            <<"D","E","L","E","T","E"," ","F","R","O","M"," ">> \o table \o WhereText(where))

\* SELECT cols FROM table [WHERE where] [ORDER BY order [dir]] [LIMIT limit];
\* no columns stands for *
SelectStatement(cols, table, where, order, dir, limit) ==
  Statement("select", table, cols, <<>>, where, order, dir, limit,
            <<"S","E","L","E","C","T"," ">> \o (IF cols = <<>> THEN <<"*">> ELSE Join(cols, <<","," ">>))
              \o <<" ","F","R","O","M"," ">> \o table \o WhereText(where)
              \o (IF order = <<>> THEN <<>> ELSE <<" ","O","R","D","E","R"," ","B","Y"," ">> \o order)
              \o (IF dir = <<>> THEN <<>> ELSE <<" ">> \o dir)
              \o (IF limit = <<>> THEN <<>> ELSE <<" ","L","I","M","I","T"," ">> \o limit))

\* a statement that query() rejects
BadStatement(text) ==
  Statement("bad", <<>>, <<>>, <<>>, <<>>, <<>>, <<>>, <<>>, text)

\* the statement s written as text
Respelled(s, text) == [s EXCEPT !.text = text]

users == <<"u","s","e","r","s">>

tags == <<"t","a","g","s">>

id == <<"i","d">>

name == <<"n","a","m","e">>

Inputs ==
  << InsertStatement(users, <<id, name>>, <<<<"1">>, <<"\"","S","m","i","t","h",","," ","J","\"">>>>),
     InsertStatement(users, <<id, name>>, <<<<"2">>, <<"'","B","o","'">>>>),
     InsertStatement(users, <<name, id>>, <<<<"B","o">>, <<"1">>>>),
     InsertStatement(tags, <<id>>, <<<<"1">>>>),
     UpdateStatement(users, <<name>>, <<<<"\"","D","o","e",","," ","J","\"">>>>, <<"i","d"," ","="," ","1">>),
     UpdateStatement(users, <<name, id>>, <<<<"A","l">>, <<"2">>>>, <<>>),
     UpdateStatement(users, <<name>>, <<<<"\"","B","o","b","\"">>>>, <<"i","d"," ","="," ","9","9","9">>),
     DeleteStatement(users, <<>>),
     DeleteStatement(users, <<"i","d"," ","="," ","1">>),
     DeleteStatement(users, <<"n","a","m","e"," ","="," ","\"","B","o","\""," ","A","N","D"," ","i","d"," ","="," ","2">>),
     DeleteStatement(tags, <<>>),
     SelectStatement(<<>>, users, <<>>, <<>>, <<>>, <<>>),
     SelectStatement(<<>>, users, <<"i","d"," ","="," ","1">>, <<>>, <<>>, <<>>),
     SelectStatement(<<>>, users, <<"i","d"," ","="," ","2">>, <<>>, <<>>, <<>>),
     SelectStatement(<<>>, users, <<"n","a","m","e"," ","="," ","B","o">>, <<>>, <<>>, <<>>),
     SelectStatement(<<name>>, users, <<>>, id, <<"D","E","S","C">>, <<>>),
     SelectStatement(<<>>, users, <<>>, name, <<>>, <<"1">>),
     SelectStatement(<<>>, tags, <<"i","d"," ","="," ","1">>, <<>>, <<>>, <<>>),
     SelectStatement(<<>>, <<"n","o","n","e","x","i","s","t","e","n","t">>, <<>>, <<>>, <<>>, <<>>),
     BadStatement(<<"D","R","O","P"," ","T","A","B","L","E"," ","u","s","e","r","s">>),
     BadStatement(<<"I","N","S","E","R","T"," ","I","N","T","O"," ","u","s","e","r","s"," ","V","A","L","U","E","S"," ","(","1",","," ","\"","x","\"",")">>),
     BadStatement(<<"U","P","D","A","T","E"," ","u","s","e","r","s"," ","n","a","m","e"," ","="," ","\"","x","\"">>),
     BadStatement(<<"D","E","L","E","T","E"," ","u","s","e","r","s">>),
     BadStatement(<<"S","E","L","E","C","T"," ","*"," ","u","s","e","r","s">>),
     BadStatement(<<>>),
     Respelled(SelectStatement(<<>>, users, <<>>, <<>>, <<>>, <<>>),
               <<" "," ","s","e","l","e","c","t"," ","*"," ","f","r","o","m"," ">> \o users),
     Respelled(DeleteStatement(tags, <<>>),
               <<"D","e","l","e","t","e"," ","F","r","o","m"," ">> \o tags),
     Respelled(InsertStatement(tags, <<id>>, <<<<"1">>>>),
               <<"\t","i","n","s","e","r","t"," ","i","n","t","o"," ">> \o tags
                 \o <<" ","(","i","d",")"," ","v","a","l","u","e","s"," ","(","1",")">>),
     Respelled(UpdateStatement(users, <<name>>, <<<<"\"","B","o","b","\"">>>>, <<"i","d"," ","="," ","9","9","9">>),
               <<"u","P","d","A","t","E"," ">> \o users
                 \o <<" ","s","e","t"," ","n","a","m","e"," ","="," ","\"","B","o","b","\"",
                      " ","w","h","e","r","e"," ","i","d"," ","="," ","9","9","9">>),
     BadStatement(<<"d","r","o","p"," ","t","a","b","l","e"," ","u","s","e","r","s">>),
     BadStatement(<<"S","E","L","E","C","T","\t","*"," ","F","R","O","M"," ","u","s","e","r","s">>),
     BadStatement(<<"s","e","l","e","c","t","x"," ","*"," ","f","r","o","m"," ","u","s","e","r","s">>),
     BadStatement(<<" ","\n"," ">>),
     InsertStatement(tags, <<id, name>>, <<<<"1">>>>),
     InsertStatement(tags, <<id>>, <<<<"1">>, <<"\"","x","\"">>>>) >>

\* The statements as they are submitted: the parse of a statement's text
\* reads nothing but the text, so it is made once, and every call of the
\* statement runs that parse against the store as it then is.
Submitted ==
  [n \in 1..Len(Inputs) |->
     [kind |-> Inputs[n].kind, table |-> Inputs[n].table,
      parsed |-> parseQuery(Inputs[n].text)]]

\* the most rows a table is let grow to
MaxRows == 2

(***************************************************************************)
(* The store as a state machine: one action per statement kind, each the   *)
(* whole of query() on the statement's text.  stmt is the number of the    *)
(* last statement in Inputs (0 before the first call), returned what that  *)
(* call returned or threw, before the store as that call found it, and     *)
(* lastInsert the number of the statement before it when that was an       *)
(* INSERT that succeeded (0 otherwise).                                    *)
(***************************************************************************)
Init ==
  /\ tables = <<>>
  /\ stmt = 0
  /\ returned = Nothing
  /\ before = <<>>
  /\ lastInsert = 0
  /\ pc = "idle"
  /\ arg = Submitted
  /\ out = <<>>

\* the numbers of the statements of a kind
Ids(kind) == {n \in 1..Len(arg) : arg[n].kind = kind}

\* query(Inputs[n].text)
Call(n) ==
  \E o \in runQuery(tables, arg[n].parsed) :
    /\ tables' = o.tables
    /\ returned' = o.ret
    /\ before' = tables
    /\ stmt' = n
    /\ lastInsert' = IF stmt /= 0 /\ arg[stmt].kind = "insert" /\ returned.kind = "row"
                     THEN stmt ELSE 0
    /\ UNCHANGED <<pc, arg, out>>

Insert(n) == Len(load(tables, arg[n].table)) < MaxRows /\ Call(n)

Update(n) == Call(n)

Delete(n) == Call(n)

Select(n) == Call(n)

Reject(n) == Call(n)

Next ==
  \/ \E n \in Ids("insert") : Insert(n)
  \/ \E n \in Ids("update") : Update(n)
  \/ \E n \in Ids("delete") : Delete(n)
  \/ \E n \in Ids("select") : Select(n)
  \/ \E n \in Ids("bad") : Reject(n)

Spec == Init /\ [][Next]_vars

(***************************************************************************)
(* The contracts of the statements, as properties of Spec.                 *)
(***************************************************************************)
\* the keys of a record
Keys(row) == {row[i].k : i \in 1..Len(row)}

\* a value written without quotes, white space, commas or parentheses
isBare(value) ==
  /\ value /= <<>>
  /\ \A i \in 1..Len(value) : ~isSpace(value[i]) /\ ~isQuote(value[i])
                               /\ value[i] \notin {",", "(", ")"}

\* the record an INSERT statement writes: its columns with its value tokens,
\* quotes taken off
holdsTokens(row, s) ==
  /\ Keys(row) = {s.cols[j] : j \in 1..Len(s.cols)}
  /\ \A j \in 1..Len(s.cols) : Get(row, s.cols[j]) = stripQuotes(s.vals[j])

\* s is SELECT * FROM table WHERE pk = value, and nothing more
selectsBy(s, table, pk, value) ==
  /\ s.kind = "select" /\ s.table = table /\ s.cols = <<>>
  /\ s.order = <<>> /\ s.limit = <<>>
  /\ s.where = pk \o <<" ","="," ">> \o value

\* C1: after a successful INSERT INTO t (c1..cn) VALUES (v1..vn), the call
\* SELECT * FROM t WHERE pk = value, for pk an inserted column whose token is
\* the bare value and which no other record of t holds, returns exactly one
\* record, and its fields c1..cn hold the inserted tokens as strings with the
\* surrounding quotes taken off, whatever statements preceded the INSERT.
RoundTrip ==
  ( /\ stmt \in Ids("select") /\ lastInsert /= 0
    /\ Len(Inputs[lastInsert].cols) = Len(Inputs[lastInsert].vals) ) =>
    LET s == Inputs[stmt]
        i == Inputs[lastInsert]
        rows == load(tables, i.table)
    IN  \A j \in 1..Len(i.cols) :
          LET value == stripQuotes(i.vals[j])
          IN  ( /\ selectsBy(s, i.table, i.cols[j], value)
                /\ isBare(value)
                /\ \A r \in 1..(Len(rows) - 1) : Get(rows[r], i.cols[j]) /= value )
              => /\ returned.kind = "rows"
                 /\ Len(returned.rows) = 1
                 /\ holdsTokens(returned.rows[1], i)

\* an INSERT of a quoted value into a table that held a record, then a SELECT
\* by that value written bare, which returned the one record
RoundTripWitness ==
  /\ stmt \in Ids("select") /\ lastInsert \in Ids("insert")
  /\ selectsBy(Inputs[stmt], users, name, <<"B","o">>)
  /\ Inputs[lastInsert].vals = <<<<"2">>, <<"'","B","o","'">>>>
  /\ Len(load(tables, users)) = 2
  /\ returned = Rows(<<<<[k |-> id, v |-> <<"2">>], [k |-> name, v |-> <<"B","o">>]>>>>)

\* the rows of the statement's table that statement n's filter matches
matches(n, row) == ~arg[n].parsed.filtered \/ testTerms(arg[n].parsed.terms, row)

\* the record an UPDATE statement makes of row: the old fields, overlaid with
\* the assignments
overlaid(new, old, s) ==
  /\ Keys(new) = Keys(old) \cup {s.cols[j] : j \in 1..Len(s.cols)}
  /\ \A j \in 1..Len(s.cols) : Get(new, s.cols[j]) = stripQuotes(s.vals[j])
  /\ \A key \in Keys(old) \ {s.cols[j] : j \in 1..Len(s.cols)} :
       Get(new, key) = Get(old, key)

\* C2: UPDATE t SET assignments [WHERE F] makes every record of t that
\* matches F (every record without a WHERE) the old record overlaid with the
\* assignments, leaves every other record, the number and the order of the
\* records as they were, and returns the number of matching records; when no
\* record matches, the count is 0 and the table is what it was.
UpdateOverlays ==
  (stmt \in Ids("update") /\ returned.kind /= "error") =>
    LET s == Inputs[stmt]
        old == load(before, s.table)
        new == load(tables, s.table)
        hits == {i \in 1..Len(old) : matches(stmt, old[i])}
    IN  /\ Len(new) = Len(old)
        /\ \A i \in 1..Len(old) :
             IF i \in hits THEN overlaid(new[i], old[i], s) ELSE new[i] = old[i]
        /\ returned = Updated(Cardinality(hits))
        /\ hits = {} => returned.updated = 0 /\ new = old

\* an UPDATE with a filter that matched one of two records and changed it
UpdateOverlaysWitness ==
  /\ stmt \in Ids("update") /\ Inputs[stmt].where /= <<>>
  /\ returned = Updated(1)
  /\ Len(load(before, users)) = 2
  /\ load(tables, users) /= load(before, users)

\* the j-th smallest member of a set of numbers
nth(S, j) == CHOOSE i \in S : Cardinality({x \in S : x <= i}) = j

\* C3: DELETE FROM t [WHERE F] leaves in t exactly the records that did not
\* match F, unmodified and in their previous relative order; without a WHERE
\* t is empty afterwards and a following SELECT * FROM t returns no rows,
\* whatever t held.
DeleteKeepsOthers ==
  (stmt \in Ids("delete") /\ returned.kind /= "error") =>
    LET s == Inputs[stmt]
        old == load(before, s.table)
        new == load(tables, s.table)
        kept == {i \in 1..Len(old) : ~matches(stmt, old[i])}
    IN  /\ Len(new) = Cardinality(kept)
        /\ \A j \in 1..Len(new) : new[j] = old[nth(kept, j)]
        /\ s.where = <<>> =>
             /\ new = <<>>
             /\ \A o \in query(tables, SelectStatement(<<>>, s.table, <<>>, <<>>, <<>>, <<>>).text) :
                  o.ret = Rows(<<>>)

\* a DELETE with a filter that took one of two records and left the other
DeleteKeepsOthersWitness ==
  /\ stmt \in Ids("delete") /\ Inputs[stmt].where /= <<>>
  /\ Len(load(before, users)) = 2
  /\ Len(load(tables, users)) = 1

\* C4: a query call that fails, for an unrecognised leading keyword or for a
\* recognised keyword whose clauses do not have the statement's shape, raises
\* its error before any save: every table holds what it held before the call.
FailureSavesNothing ==
  (stmt /= 0 /\ returned.kind = "error") => tables = before

\* an INSERT without its column list, rejected on a store that holds records
FailureSavesNothingWitness ==
  /\ stmt \in Ids("bad") /\ returned = Error("Invalid INSERT syntax", <<>>)
  /\ Len(load(tables, users)) = 2

\* C19: after a SELECT, with or without WHERE, ORDER BY, LIMIT or a column
\* list, every table holds the records it held before, in the same order,
\* and no table has come to exist; a SELECT on a table that does not exist
\* returns the empty sequence.
SelectLeavesStore ==
  stmt \in Ids("select") =>
    /\ tables = before
    /\ arg[stmt].table \notin DOMAIN before => returned = Rows(<<>>)

\* SELECT name FROM users ORDER BY id DESC on two stored records: returned
\* in the reverse of the stored order, which stays as it was
SelectLeavesStoreWitness ==
  /\ stmt \in Ids("select")
  /\ Inputs[stmt].order = id /\ Inputs[stmt].cols = <<name>>
  /\ Len(load(tables, users)) = 2
  /\ Get(tables[users][1], id) = <<"1">> /\ Get(tables[users][2], id) = <<"2">>
  /\ returned.kind = "rows" /\ Len(returned.rows) = 2
  /\ returned.rows[1] = <<[k |-> name, v |-> Get(tables[users][2], name)]>>
  /\ returned.rows[2] = <<[k |-> name, v |-> Get(tables[users][1], name)]>>

(***************************************************************************)
(* The WHERE evaluator on its own: SpecWhere draws a filter and a record,  *)
(* and each action is one call of evalWhere on a filter written from the   *)
(* drawn leaf conditions.                                                  *)
(***************************************************************************)
city == <<"c","i","t","y">>

age == <<"a","g","e">>

\* leaf conditions: field, operator and a quoted literal, a bare token or a
\* parenthesised list
Leaves ==
  << <<"c","i","t","y"," ","="," ","\"","B","e","r","l","i","n","\"">>,
     <<"a","g","e"," ",">"," ","3","0">>,
     <<"c","i","t","y"," ","="," ","\"","P","a","r","i","s","\"">>,
     <<"n","a","m","e"," ","I","N"," ","(","\"","S","m","i","t","h",","," ","J","\"",","," ","'","B","o","'",")">>,
     <<"n","a","m","e"," ","L","I","K","E"," ","\"","%","o","\"">>,
     <<"n","a","m","e"," ","="," ","\"","a"," ","O","R"," ","(","b","\"">>,
     <<"a","g","e"," ","<","="," ","3","0">>,
     <<"n","a","m","e"," ","="," ","B","o">> >>

Records ==
  << <<[k |-> city, v |-> <<"B","e","r","l","i","n">>], [k |-> age, v |-> <<"3","5">>], [k |-> name, v |-> <<"B","o">>]>>,
     <<[k |-> city, v |-> <<"P","a","r","i","s">>], [k |-> age, v |-> <<"2","5">>], [k |-> name, v |-> <<"S","m","i","t","h",","," ","J">>]>>,
     <<[k |-> city, v |-> <<"B","e","r","l","i","n">>], [k |-> age, v |-> <<"3","0">>], [k |-> name, v |-> <<"a"," ","O","R"," ","(","b">>]>>,
     <<[k |-> city, v |-> <<"R","o","m","e">>], [k |-> age, v |-> <<"4","0">>]>> >>

\* the tokens of IN lists, each with the value it stands for
Tokens ==
  << [text |-> <<"\"","S","m","i","t","h",","," ","J","o","h","n","\"">>, value |-> <<"S","m","i","t","h",","," ","J","o","h","n">>],
     [text |-> <<"'","D","o","e",","," ","J","a","n","e","'">>, value |-> <<"D","o","e",","," ","J","a","n","e">>],
     [text |-> <<"S","m","i","t","h">>, value |-> <<"S","m","i","t","h">>],
     [text |-> <<"\"","D","o","e","\"">>, value |-> <<"D","o","e">>],
     [text |-> <<"3","5">>, value |-> <<"3","5">>] >>

\* the most tokens of a drawn IN list
MaxTokens == 2

TokenLists == UNION {[1..n -> 1..Len(Tokens)] : n \in 1..MaxTokens}

InRecords ==
  << <<[k |-> name, v |-> <<"S","m","i","t","h",","," ","J","o","h","n">>]>>,
     <<[k |-> name, v |-> <<"D","o","e",","," ","J","a","n","e">>]>>,
     <<[k |-> name, v |-> <<"S","m","i","t","h">>]>>,
     <<[k |-> name, v |-> <<"J","o","h","n">>]>>,
     <<[k |-> name, v |-> <<"D","o","e">>]>>,
     <<[k |-> name, v |-> <<"S","m","i","t","h",","," ","J","o","h">>]>>,
     <<[k |-> name, v |-> <<"3","5">>]>>,
     <<[k |-> age, v |-> <<"3","5">>]>> >>

\* LIKE patterns: the wildcards, letters in both cases and the regular
\* expression metacharacters
LikePatterns ==
  << <<"%","@","t","e","s","t",".","%">>, <<"A","_">>, <<"a","l","i","c","e">>, <<"%">>,
     <<"a",".","c">>, <<>>, <<"a","%","c">>, <<"_","%","_">>, <<"(","x",")">>, <<"a","+">>,
     <<"u","n","%">>, <<"[","a","b","]">>, <<"a","_","c">>, <<"^","a","$">>, <<"a","*">> >>

\* records with a name for LIKE to read, and one without
LikeRecords ==
  << <<[k |-> name, v |-> <<"u","s","e","r","@","t","e","s","t",".","c","o","m">>]>>,
     <<[k |-> name, v |-> <<"u","s","e","r","@","t","e","s","t","X","c","o","m">>]>>,
     <<[k |-> name, v |-> <<"@","t","e","s","t",".">>]>>,
     <<[k |-> name, v |-> <<"A","l">>]>>,
     <<[k |-> name, v |-> <<"A","l","i","c","e">>]>>,
     <<[k |-> name, v |-> <<"A","L","I","C","E">>]>>,
     <<[k |-> name, v |-> <<"a","x","c">>]>>,
     <<[k |-> name, v |-> <<"a",".","c">>]>>,
     <<[k |-> name, v |-> <<"a","c">>]>>,
     <<[k |-> name, v |-> <<"a">>]>>,
     <<[k |-> name, v |-> <<"a","a">>]>>,
     <<[k |-> name, v |-> <<"a","+">>]>>,
     <<[k |-> name, v |-> <<"a","*">>]>>,
     <<[k |-> name, v |-> <<"^","a","$">>]>>,
     <<[k |-> name, v |-> <<"(","x",")">>]>>,
     <<[k |-> name, v |-> <<"x">>]>>,
     <<[k |-> name, v |-> <<"[","a","b","]">>]>>,
     <<[k |-> name, v |-> <<>>]>>,
     <<[k |-> city, v |-> <<"R","o","m","e">>]>> >>

\* texts compared as numbers, each with whether it reads as a number and
\* ten times that number
CompareNumbers ==
  << [text |-> <<"1","0","0">>, numeric |-> TRUE, tenths |-> 1000],
     [text |-> <<"2","0">>, numeric |-> TRUE, tenths |-> 200],
     [text |-> <<"3","0">>, numeric |-> TRUE, tenths |-> 300],
     [text |-> <<"5",".","5">>, numeric |-> TRUE, tenths |-> 55],
     [text |-> <<"5">>, numeric |-> TRUE, tenths |-> 50],
     [text |-> <<"-","1">>, numeric |-> TRUE, tenths |-> -10],
     [text |-> <<"1","e","2">>, numeric |-> TRUE, tenths |-> 1000],
     [text |-> <<"0",".","5">>, numeric |-> TRUE, tenths |-> 5],
     [text |-> <<"a","b","c">>, numeric |-> FALSE, tenths |-> 0],
     [text |-> <<>>, numeric |-> FALSE, tenths |-> 0] >>

CompareOps == << <<">">>, <<"<">>, <<">","=">>, <<"<","=">> >>

\* records with an age to compare, one for each text, and one without
CompareRecords ==
  [r \in 1..(Len(CompareNumbers) + 1) |->
     IF r <= Len(CompareNumbers) THEN <<[k |-> age, v |-> CompareNumbers[r].text]>>
     ELSE <<[k |-> city, v |-> <<"R","o","m","e">>]>>]

WhereInputs ==
  {[kind |-> "compare", A |-> CompareNumbers[a].text, B |-> CompareOps[b], C |-> <<>>,
    tokens |-> <<>>, row |-> CompareRecords[r]] :
     a \in 1..(Len(CompareNumbers) - 1), b \in 1..Len(CompareOps), r \in 1..Len(CompareRecords)}
  \cup
  {[kind |-> "like", A |-> LikePatterns[a], B |-> <<>>, C |-> <<>>,
    tokens |-> <<>>, row |-> LikeRecords[r]] :
     a \in 1..Len(LikePatterns), r \in 1..Len(LikeRecords)}
  \cup
  {[kind |-> "leaves", A |-> Leaves[a], B |-> Leaves[b], C |-> Leaves[c],
    tokens |-> <<>>, row |-> Records[r]] :
     a \in 1..Len(Leaves), b \in 1..Len(Leaves), c \in 1..Len(Leaves), r \in 1..Len(Records)}
  \cup
  {[kind |-> "list", A |-> <<>>, B |-> <<>>, C |-> <<>>,
    tokens |-> [i \in DOMAIN ts |-> Tokens[ts[i]]], row |-> InRecords[r]] :
     ts \in TokenLists, r \in 1..Len(InRecords)}

\* (A AND B) OR C
Grouped(A, B, C) == <<"(">> \o A \o <<" ","A","N","D"," ">> \o B \o <<")"," ","O","R"," ">> \o C

\* A AND (B OR C)
Nested(A, B, C) == A \o <<" ","A","N","D"," ","(">> \o B \o <<" ","O","R"," ">> \o C \o <<")">>

\* (A) AND (B)
WrappedAnd(A, B) == <<"(">> \o A \o <<")"," ","A","N","D"," ","(">> \o B \o <<")">>

\* (A) OR (B)
WrappedOr(A, B) == <<"(">> \o A \o <<")"," ","O","R"," ","(">> \o B \o <<")">>

\* A AND (B OR (C AND A)): three levels of mixed AND and OR
Deep(A, B, C) ==
  A \o <<" ","A","N","D"," ","(">> \o B \o <<" ","O","R"," ","(">> \o C
    \o <<" ","A","N","D"," ">> \o A \o <<")",")">>

\* A OR B
Either(A, B) == A \o <<" ","O","R"," ">> \o B

\* name IN (t1, ..., tn)
InList(tokens) ==
  name \o <<" ","I","N"," ","(">> \o Join([i \in DOMAIN tokens |-> tokens[i].text], <<","," ">>) \o <<")">>

\* name LIKE "pattern"
Like(pattern) == name \o <<" ","L","I","K","E"," ","\"">> \o pattern \o <<"\"">>

\* age op literal
Compare(op, literal) == age \o <<" ">> \o op \o <<" ">> \o literal

InitWhere ==
  /\ pc = "filter"
  /\ arg \in WhereInputs
  /\ out = FALSE
  /\ tables = <<>> /\ stmt = 0 /\ returned = Nothing /\ before = <<>> /\ lastInsert = 0

\* evalWhere(text, arg.row), the call named by at
Eval(text, at) ==
  /\ pc = "filter"
  /\ pc' = at
  /\ out' = evalWhere(text, arg.row)
  /\ UNCHANGED <<arg, tables, stmt, returned, before, lastInsert>>

EvalGrouped == arg.kind = "leaves" /\ Eval(Grouped(arg.A, arg.B, arg.C), "grouped")

EvalNested == arg.kind = "leaves" /\ Eval(Nested(arg.A, arg.B, arg.C), "nested")

EvalEither == arg.kind = "leaves" /\ Eval(Either(arg.A, arg.B), "either")

EvalInList == arg.kind = "list" /\ Eval(InList(arg.tokens), "list")

EvalLike == arg.kind = "like" /\ Eval(Like(arg.A), "like")

EvalCompare == arg.kind = "compare" /\ Eval(Compare(arg.B, arg.A), "compare")

EvalWrappedAnd == arg.kind = "leaves" /\ Eval(WrappedAnd(arg.A, arg.B), "wrappedAnd")

EvalWrappedOr == arg.kind = "leaves" /\ Eval(WrappedOr(arg.A, arg.B), "wrappedOr")

EvalDeep == arg.kind = "leaves" /\ Eval(Deep(arg.A, arg.B, arg.C), "deep")

NextWhere ==
  \/ EvalGrouped \/ EvalNested \/ EvalEither \/ EvalInList \/ EvalLike \/ EvalCompare
  \/ EvalWrappedAnd \/ EvalWrappedOr \/ EvalDeep

SpecWhere == InitWhere /\ [][NextWhere]_vars

\* C5: for leaf conditions A, B, C and every record, the filter
\* (A AND B) OR C matches the record exactly when A and B both hold of it or
\* C holds of it.
GroupedConjunction ==
  pc = "grouped" =>
    out = ( \/ evalCondition(arg.A, arg.row) /\ evalCondition(arg.B, arg.row)
            \/ evalCondition(arg.C, arg.row) )

\* the filter of the documented test, on the Berlin record aged 35: matched by
\* its first branch alone
GroupedConjunctionWitness ==
  /\ pc = "grouped" /\ out = TRUE
  /\ arg.A = Leaves[1] /\ arg.B = Leaves[2] /\ arg.C = Leaves[3]
  /\ arg.row = Records[1]

\* C6: for leaf conditions A, B, C and every record, the filter
\* A AND (B OR C) matches the record exactly when A holds of it and B or C
\* holds of it.
NestedDisjunction ==
  pc = "nested" =>
    out = ( /\ evalCondition(arg.A, arg.row)
            /\ \/ evalCondition(arg.B, arg.row)
               \/ evalCondition(arg.C, arg.row) )

\* C20: for leaf conditions A and B and every record, the filter (A) AND (B)
\* matches the record exactly when A and B both hold of it, and the filter
\* (A) OR (B) exactly when A or B holds of it: parentheses around a single
\* term change nothing.
WrappedTerms ==
  /\ pc = "wrappedAnd" =>
       out = (evalCondition(arg.A, arg.row) /\ evalCondition(arg.B, arg.row))
  /\ pc = "wrappedOr" =>
       out = (evalCondition(arg.A, arg.row) \/ evalCondition(arg.B, arg.row))

\* C21: a term that is still not one leaf condition once the filter is split
\* on OR and on AND and the wrapping parentheses are stripped is false of
\* every record.  A AND (B OR C) has the term B OR C, (A) AND (B) the term
\* A) AND (B, and A AND (B OR (C AND A)), of three levels, the term
\* B OR (C AND A); each is the filter's only branch or a term of it, so each
\* filter is false of every record.
IrreducibleIsFalse ==
  pc \in {"nested", "wrappedAnd", "deep"} => out = FALSE

\* C8: f IN (t1, ..., tn) matches a record exactly when the stringified value
\* of f is, as a whole string, one of the tokens with its surrounding quotes
\* taken off: a comma inside a quoted token separates nothing, and a value
\* that is part of a token, or holds one, does not match.
InMembership ==
  pc = "list" =>
    out = (\E i \in DOMAIN arg.tokens : arg.tokens[i].value = String(Get(arg.row, name)))

\* a list of two quoted tokens with commas, matched by the record that holds
\* the second token's value
InMembershipWitness ==
  /\ pc = "list" /\ out = TRUE
  /\ arg.tokens = <<Tokens[1], Tokens[2]>>
  /\ arg.row = InRecords[2]

\* C9: for leaf conditions A and B and every record, A OR B matches the
\* record exactly when B OR A does.
OrCommutes ==
  pc = "either" => out = evalWhere(Either(arg.B, arg.A), arg.row)

\* two different leaves of which only the second holds of the record
OrCommutesWitness ==
  /\ pc = "either" /\ out = TRUE
  /\ arg.A /= arg.B
  /\ ~evalCondition(arg.A, arg.row)
  /\ evalCondition(arg.B, arg.row)


(***************************************************************************)
(* The comma lists on their own: SpecSplit draws the segments of an INSERT *)
(* value list or of an UPDATE SET list, and each action is the split the   *)
(* handler makes of the list's text.                                       *)
(***************************************************************************)
bio == <<"b","i","o">>

\* the segments of value lists, each with the value it stands for; the last
\* two are blank
ValueSegments ==
  << [text |-> <<"1">>, key |-> <<>>, value |-> <<"1">>],
     [text |-> <<" ","\"","S","m","i","t","h",","," ","J","o","h","n","\"">>, key |-> <<>>, value |-> <<"S","m","i","t","h",","," ","J","o","h","n">>],
     [text |-> <<" ","'","a",",","b","'"," ">>, key |-> <<>>, value |-> <<"a",",","b">>],
     [text |-> <<" ">>, key |-> <<>>, value |-> <<>>],
     [text |-> <<>>, key |-> <<>>, value |-> <<>>] >>

\* the segments of SET lists, each with the key and the value it assigns
SetSegments ==
  << [text |-> <<"a","g","e"," ","="," ","2","6">>, key |-> age, value |-> <<"2","6">>],
     [text |-> <<" ","n","a","m","e"," ","="," ","\"","S","m","i","t","h",","," ","J","o","h","n","\"">>, key |-> name, value |-> <<"S","m","i","t","h",","," ","J","o","h","n">>],
     [text |-> <<" ","b","i","o"," ","="," ","'","L","i","k","e","s",":"," ","a",","," ","b","'"," ">>, key |-> bio, value |-> <<"L","i","k","e","s",":"," ","a",","," ","b">>],
     [text |-> <<" ">>, key |-> <<>>, value |-> <<>>],
     [text |-> <<>>, key |-> <<>>, value |-> <<>>] >>

\* the most segments of a drawn list
MaxSegments == 3

SegmentLists(segments) ==
  {[i \in DOMAIN ns |-> segments[ns[i]]] :
     ns \in UNION {[1..n -> 1..Len(segments)] : n \in 1..MaxSegments}}

\* the text of a list: its segments with a comma between them
ListText(segments) == Join([i \in DOMAIN segments |-> segments[i].text], <<",">>)

\* a list's text is never empty: the handlers' patterns ask for a character
SplitInputs ==
  {in \in {[kind |-> "values", segments |-> l] : l \in SegmentLists(ValueSegments)}
          \cup {[kind |-> "set", segments |-> l] : l \in SegmentLists(SetSegments)} :
     ListText(in.segments) /= <<>>}

InitSplit ==
  /\ pc = "list"
  /\ arg \in SplitInputs
  /\ out = <<>>
  /\ tables = <<>> /\ stmt = 0 /\ returned = Nothing /\ before = <<>> /\ lastInsert = 0

\* the values INSERT takes from the text between the parentheses of VALUES
SplitValues ==
  /\ pc = "list" /\ arg.kind = "values"
  /\ pc' = "values"
  /\ out' = [parts |-> insertValues(ListText(arg.segments)), updates |-> <<>>]
  /\ UNCHANGED <<arg, tables, stmt, returned, before, lastInsert>>

\* the pairs and the assignment map UPDATE takes from the text of its SET clause
SplitAssignments ==
  /\ pc = "list" /\ arg.kind = "set"
  /\ pc' = "set"
  /\ out' = [parts |-> splitRespectingQuotes(ListText(arg.segments)),
             updates |-> assignments(ListText(arg.segments))]
  /\ UNCHANGED <<arg, tables, stmt, returned, before, lastInsert>>

NextSplit == SplitValues \/ SplitAssignments

SpecSplit == InitSplit /\ [][NextSplit]_vars

\* the commas of str from character i on that lie outside quoted spans; a
\* span runs from a quote character to the next occurrence of the same one
RECURSIVE commasOutside(_, _, _)
commasOutside(str, i, quote) ==
  IF i > Len(str) THEN 0
  ELSE IF quote = "" /\ isQuote(str[i]) THEN commasOutside(str, i + 1, str[i])
  ELSE IF quote /= "" /\ str[i] = quote THEN commasOutside(str, i + 1, "")
  ELSE (IF quote = "" /\ str[i] = "," THEN 1 ELSE 0) + commasOutside(str, i + 1, quote)

\* every part obtained is the value of the segment at its place, commas and
\* all, and every key assigned holds the value of the last segment that
\* assigns it
segmentsIntact ==
  LET n == Len(out.parts)
      segs == arg.segments
  IN  /\ n <= Len(segs)
      /\ pc = "values" => \A i \in 1..n : out.parts[i] = segs[i].value
      /\ pc = "set" =>
           \A i \in 1..n :
             (segs[i].key /= <<>> /\ \A j \in (i + 1)..n : segs[j].key /= segs[i].key)
             => Get(out.updates, segs[i].key) = segs[i].value

\* C7 as amended: in an INSERT value list and in an UPDATE SET list a comma
\* inside a quoted span is no split point and a quoted value keeps its commas;
\* the number of values or assignments obtained is the number of commas
\* outside quotes plus one, except that a last segment that is empty or white
\* space is not counted.
QuotedCommasIntact ==
  pc \in {"values", "set"} =>
    LET text == ListText(arg.segments)
        last == arg.segments[Len(arg.segments)].text
    IN  /\ commasOutside(text, 1, "") = Len(arg.segments) - 1
        /\ Len(out.parts) = commasOutside(text, 1, "") + 1
                            - (IF trim(last) = <<>> THEN 1 ELSE 0)
        /\ segmentsIntact

\* C7 as stated: quoted commas are no split points, a quoted value keeps its
\* commas, and the number of values or assignments obtained is the number of
\* commas outside quotes plus one.
QuotedCommasPlusOne ==
  pc \in {"values", "set"} =>
    /\ Len(out.parts) = commasOutside(ListText(arg.segments), 1, "") + 1
    /\ segmentsIntact

\* the value list 1, "Smith, John", with nothing after its last comma: two
\* values, the second with its comma
QuotedCommasIntactWitness ==
  /\ pc = "values"
  /\ arg.segments = <<ValueSegments[1], ValueSegments[2], ValueSegments[5]>>
  /\ out.parts = <<<<"1">>, <<"S","m","i","t","h",","," ","J","o","h","n">>>>


(***************************************************************************)
(* ORDER BY on its own: SpecOrder draws the rows of a table, and each      *)
(* action is one SELECT ... ORDER BY on the table.                         *)
(***************************************************************************)
rank == <<"r","a","n","k">>

\* the values of the ordering column: tenths is the number a numeric text
\* stands for, in tenths, and place the place of a word among the words in
\* dictionary order
OrderValues ==
  << [text |-> <<"1","0","0">>, numeric |-> TRUE, tenths |-> 1000, place |-> 0],
     [text |-> <<"2","0">>, numeric |-> TRUE, tenths |-> 200, place |-> 0],
     [text |-> <<"5">>, numeric |-> TRUE, tenths |-> 50, place |-> 0],
     [text |-> <<"5",".","0">>, numeric |-> TRUE, tenths |-> 50, place |-> 0],
     [text |-> <<"Z","a","r","a">>, numeric |-> FALSE, tenths |-> 0, place |-> 3],
     [text |-> <<"A","l","i","c","e">>, numeric |-> FALSE, tenths |-> 0, place |-> 1],
     [text |-> <<"B","o","b">>, numeric |-> FALSE, tenths |-> 0, place |-> 2] >>

\* the most rows of a drawn table
MaxSorted == 3

\* the table users with row i holding id i and the i-th drawn value
OrderedStore(values) ==
  (users :> [i \in DOMAIN values |->
               <<[k |-> id, v |-> <<DigitSeq[i + 1]>>], [k |-> rank, v |-> values[i].text]>>])

OrderInputs ==
  << SelectStatement(<<>>, users, <<>>, rank, <<>>, <<>>),
     SelectStatement(<<>>, users, <<>>, rank, <<"A","S","C">>, <<>>),
     SelectStatement(<<>>, users, <<>>, rank, <<"D","E","S","C">>, <<>>),
     SelectStatement(<<>>, users, <<"i","d"," ","<"," ","3">>, rank, <<"d","e","s","c">>, <<>>) >>

InitOrder ==
  /\ pc = "rows"
  /\ arg \in UNION {[1..n -> {OrderValues[v] : v \in 1..Len(OrderValues)}] : n \in 0..MaxSorted}
  /\ out = <<>>
  /\ tables = <<>> /\ stmt = 0 /\ returned = Nothing /\ before = <<>> /\ lastInsert = 0

\* query(OrderInputs[n].text) on the drawn table
OrderBy(n) ==
  /\ pc = "rows"
  /\ pc' = "sorted"
  /\ \E o \in query(OrderedStore(arg), OrderInputs[n].text) :
       out' = [n |-> n, rows |-> o.ret.rows]
  /\ UNCHANGED <<arg, tables, stmt, returned, before, lastInsert>>

NextOrder == \E n \in 1..Len(OrderInputs) : OrderBy(n)

SpecOrder == InitOrder /\ [][NextOrder]_vars

\* the drawn value of a returned row, found by the row's id
drawn(row) == arg[IndexIn(DigitSeq, Get(row, id)[1]) - 1]

\* C10: ORDER BY f [ASC|DESC] returns a permutation of the filtered rows;
\* when every f value parses as a number the rows are in non-decreasing
\* numeric order for ASC and for no direction, in non-increasing numeric
\* order for DESC; when no f value parses as a number they are in
\* lexicographic string order, reversed for DESC.
OrderedBy ==
  pc = "sorted" =>
    LET s == OrderInputs[out.n]
        all == OrderedStore(arg)[users]
        filtered == IF s.where = <<>> THEN all
                    ELSE SubSeq(all, 1, IF Len(all) < 2 THEN Len(all) ELSE 2)
        n == Len(out.rows)
        desc == toUpperCase(s.dir) = <<"D","E","S","C">>
        inOrder(a, b) == IF desc THEN a >= b ELSE a <= b
    IN  /\ n = Len(filtered)
        /\ {out.rows[i] : i \in 1..n} = {filtered[i] : i \in 1..n}
        /\ (\A i \in 1..n : drawn(filtered[i]).numeric) =>
             \A i, j \in 1..n :
               i < j => inOrder(drawn(out.rows[i]).tenths, drawn(out.rows[j]).tenths)
        /\ (\A i \in 1..n : ~drawn(filtered[i]).numeric) =>
             \A i, j \in 1..n :
               i < j => inOrder(drawn(out.rows[i]).place, drawn(out.rows[j]).place)

\* the values 20, 100, 5 ordered DESC: 100, 20, 5, by number and not by text
OrderedByWitness ==
  /\ pc = "sorted"
  /\ OrderInputs[out.n].dir = <<"D","E","S","C">>
  /\ [i \in DOMAIN arg |-> arg[i].text] = <<<<"2","0">>, <<"1","0","0">>, <<"5">>>>
  /\ [i \in DOMAIN out.rows |-> Get(out.rows[i], rank)] = <<<<"1","0","0">>, <<"2","0">>, <<"5">>>>

\* the first word of a text: what stands between the white space it may
\* begin with and the next white space
RECURSIVE leadingWord(_)
leadingWord(text) ==
  IF text = <<>> THEN <<>>
  ELSE IF isSpace(Head(text)) THEN leadingWord(Tail(text))
  ELSE IF \E i \in 1..Len(text) : isSpace(text[i])
  THEN SubSeq(text, 1, (CHOOSE i \in 1..Len(text) :
                          isSpace(text[i]) /\ \A j \in 1..(i - 1) : ~isSpace(text[j])) - 1)
  ELSE text

\* the four statement words, each with its handler, the error its handler
\* raises on a text it cannot take apart, and what it returns otherwise
Handlers ==
  << [word |-> <<"S","E","L","E","C","T">>, cmd |-> "select", msg |-> "Invalid SELECT syntax", kind |-> "rows"],
     [word |-> <<"I","N","S","E","R","T">>, cmd |-> "insert", msg |-> "Invalid INSERT syntax", kind |-> "row"],
     [word |-> <<"U","P","D","A","T","E">>, cmd |-> "update", msg |-> "Invalid UPDATE syntax", kind |-> "updated"],
     [word |-> <<"D","E","L","E","T","E">>, cmd |-> "delete", msg |-> "Invalid DELETE syntax", kind |-> "undefined"] >>

\* C16: a statement whose first word, after leading white space and in any
\* letter case, is SELECT, INSERT, UPDATE or DELETE goes to the handler of
\* that word: it returns what that handler returns or fails with that
\* handler's error, never with Unsupported SQL.  Any other statement fails
\* with Unsupported SQL, the error names its first word (in upper case), and
\* the store is left as it was.
DispatchesOnFirstWord ==
  stmt /= 0 =>
    IF \E h \in 1..Len(Handlers) : Handlers[h].word = toUpperCase(leadingWord(Inputs[stmt].text))
    THEN \E h \in 1..Len(Handlers) :
           /\ Handlers[h].word = toUpperCase(leadingWord(Inputs[stmt].text))
           /\ arg[stmt].parsed.cmd = Handlers[h].cmd
           /\ returned.msg /= "Unsupported SQL"
           /\ IF returned.kind = "error" THEN returned.msg = Handlers[h].msg
              ELSE returned.kind = Handlers[h].kind
    ELSE /\ returned = Error("Unsupported SQL", toUpperCase(leadingWord(Inputs[stmt].text)))
         /\ tables = before

\* drop table users, on a store with a row: Unsupported SQL naming DROP
DispatchesOnFirstWordWitness ==
  /\ stmt /= 0
  /\ Inputs[stmt].text = <<"d","r","o","p"," ","t","a","b","l","e"," ","u","s","e","r","s">>
  /\ returned = Error("Unsupported SQL", <<"D","R","O","P">>)
  /\ Len(load(tables, users)) = 2

\* the record an INSERT statement builds: a field for every column, the
\* i-th with the i-th value token, quotes taken off, and undefined where the
\* values have run out
pairsTokens(row, s) ==
  /\ Keys(row) = {s.cols[j] : j \in 1..Len(s.cols)}
  /\ \A j \in 1..Len(s.cols) :
       Get(row, s.cols[j]) = IF j <= Len(s.vals) THEN stripQuotes(s.vals[j]) ELSE Undefined

\* the record as the table holds it: the fields that have a value
storesTokens(row, s) ==
  /\ Keys(row) = {s.cols[j] : j \in 1..Len(s.cols) \cap 1..Len(s.vals)}
  /\ \A j \in 1..Len(s.cols) \cap 1..Len(s.vals) : Get(row, s.cols[j]) = stripQuotes(s.vals[j])

\* C24: a successful INSERT returns the record that pairs the i-th column
\* with the i-th value, a column without a value being undefined and a value
\* without a column dropped; the table is what it was with that record, its
\* undefined fields absent, as one more last element.
InsertPairs ==
  (stmt \in Ids("insert") /\ returned.kind /= "error") =>
    /\ returned.kind = "row"
    /\ pairsTokens(returned.rows[1], Inputs[stmt])
    /\ Len(load(tables, Inputs[stmt].table)) = Len(load(before, Inputs[stmt].table)) + 1
    /\ SubSeq(load(tables, Inputs[stmt].table), 1, Len(load(before, Inputs[stmt].table)))
         = load(before, Inputs[stmt].table)
    /\ storesTokens(load(tables, Inputs[stmt].table)[Len(load(tables, Inputs[stmt].table))],
                    Inputs[stmt])

\* INSERT INTO tags (id, name) VALUES (1) on a table of one record: the
\* record returned has an undefined name, the table has two records
InsertPairsWitness ==
  /\ stmt \in Ids("insert")
  /\ Inputs[stmt].cols = <<id, name>> /\ Inputs[stmt].vals = <<<<"1">>>>
  /\ returned.kind = "row"
  /\ Has(returned.rows[1], name) /\ Get(returned.rows[1], name) = Undefined
  /\ Len(load(before, tags)) = 1
  /\ Len(load(tables, tags)) = 2

\* a is b with some of its elements left out
RECURSIVE isSubsequence(_, _)
isSubsequence(a, b) ==
  IF a = <<>> THEN TRUE
  ELSE IF b = <<>> THEN FALSE
  ELSE IF Head(a) = Head(b) THEN isSubsequence(Tail(a), Tail(b))
  ELSE isSubsequence(a, Tail(b))

\* a record in its place after an UPDATE: what the statement does not
\* assign is as it was
samePlace(new, old, s) ==
  \A key \in Keys(old) \ {s.cols[j] : j \in 1..Len(s.cols)} :
    Has(new, key) /\ Get(new, key) = Get(old, key)

\* C25: every call keeps the order of insertion.  A failed call and a SELECT
\* leave the table as it was; an INSERT adds its record after the records
\* the table held; an UPDATE leaves every record in its place; a DELETE
\* leaves the records it keeps in the order they had; and SELECT * without
\* ORDER BY returns records in the order of the table, all of them when it
\* has no WHERE and no LIMIT.
KeepsInsertionOrder ==
  stmt /= 0 =>
    CASE returned.kind = "error" -> tables = before
      [] returned.kind /= "error" /\ Inputs[stmt].kind = "insert" ->
           /\ Len(load(tables, Inputs[stmt].table)) = Len(load(before, Inputs[stmt].table)) + 1
           /\ \A i \in 1..Len(load(before, Inputs[stmt].table)) :
                load(tables, Inputs[stmt].table)[i] = load(before, Inputs[stmt].table)[i]
      [] returned.kind /= "error" /\ Inputs[stmt].kind = "update" ->
           /\ Len(load(tables, Inputs[stmt].table)) = Len(load(before, Inputs[stmt].table))
           /\ \A i \in 1..Len(load(before, Inputs[stmt].table)) :
                samePlace(load(tables, Inputs[stmt].table)[i],
                          load(before, Inputs[stmt].table)[i], Inputs[stmt])
      [] returned.kind /= "error" /\ Inputs[stmt].kind = "delete" ->
           isSubsequence(load(tables, Inputs[stmt].table), load(before, Inputs[stmt].table))
      [] returned.kind /= "error" /\ Inputs[stmt].kind = "select" ->
           /\ tables = before
           /\ (Inputs[stmt].cols = <<>> /\ Inputs[stmt].order = <<>>) =>
                isSubsequence(returned.rows, load(tables, Inputs[stmt].table))
           /\ ( /\ Inputs[stmt].cols = <<>> /\ Inputs[stmt].order = <<>>
                /\ Inputs[stmt].where = <<>> /\ Inputs[stmt].limit = <<>> ) =>
                returned.rows = load(tables, Inputs[stmt].table)

\* the record with id 2 was inserted before the record with id 1, and
\* SELECT * FROM users returned them in that order
KeepsInsertionOrderWitness ==
  /\ stmt \in Ids("select")
  /\ Inputs[stmt].table = users /\ Inputs[stmt].cols = <<>>
  /\ Inputs[stmt].where = <<>> /\ Inputs[stmt].order = <<>> /\ Inputs[stmt].limit = <<>>
  /\ returned.kind = "rows" /\ Len(returned.rows) = 2
  /\ Get(returned.rows[1], id) = <<"2">>
  /\ Get(returned.rows[2], id) = <<"1">>

\* C26: after an INSERT, an UPDATE or a DELETE naming table t, every other
\* table of the store exists as before and holds the records it held; no
\* other table comes to exist.
OtherTablesKept ==
  (stmt /= 0 /\ Inputs[stmt].kind \in {"insert", "update", "delete"}) =>
    \A t \in (DOMAIN before \cup DOMAIN tables) \ {Inputs[stmt].table} :
      /\ t \in DOMAIN before /\ t \in DOMAIN tables
      /\ tables[t] = before[t]

\* DELETE FROM tags emptied tags and left the two records of users
OtherTablesKeptWitness ==
  /\ stmt \in Ids("delete")
  /\ Inputs[stmt].table = tags
  /\ Len(load(before, tags)) > 0 /\ load(tables, tags) = <<>>
  /\ Len(load(before, users)) = 2
  /\ load(tables, users) = load(before, users)

\* whether the whole of text matches a LIKE pattern: % is any run of
\* characters, _ is one character, any other character is itself in either
\* letter case
RECURSIVE globMatches(_, _)
globMatches(pattern, text) ==
  IF pattern = <<>> THEN text = <<>>
  ELSE IF Head(pattern) = "%"
  THEN globMatches(Tail(pattern), text) \/ (text /= <<>> /\ globMatches(pattern, Tail(text)))
  ELSE /\ text /= <<>>
       /\ Head(pattern) = "_" \/ toUpperCase(<<Head(pattern)>>) = toUpperCase(<<Head(text)>>)
       /\ globMatches(Tail(pattern), Tail(text))

\* the text LIKE reads a record's name as: the name, or the word undefined
\* when the record has none
nameText(row) ==
  IF \E i \in 1..Len(row) : row[i].k = name
  THEN row[CHOOSE i \in 1..Len(row) : row[i].k = name].v
  ELSE <<"u","n","d","e","f","i","n","e","d">>

\* C14: name LIKE "p" matches a record exactly when the whole text of its
\* name matches p without regard to letter case, with % for any run of
\* characters, the empty run too, _ for exactly one character and every
\* other character of p, the dot and the other metacharacters of regular
\* expressions too, for itself only.
LikeMatches ==
  pc = "like" => out = globMatches(arg.A, nameText(arg.row))

\* the pattern of the documented test matches the address it is tested on
LikeMatchesWitness ==
  /\ pc = "like" /\ out = TRUE
  /\ arg.A = LikePatterns[1]
  /\ arg.row = LikeRecords[1]

\* what is known of a compared text
knownOf(text) == CompareNumbers[CHOOSE k \in 1..Len(CompareNumbers) : CompareNumbers[k].text = text]

\* the relation an operator names, on integers
related(op, a, b) ==
  CASE op = <<">">> -> a > b
    [] op = <<"<">> -> a < b
    [] op = <<">","=">> -> a >= b
    [] op = <<"<","=">> -> a <= b

\* C15: age op literal, for op one of >, <, >=, <=, holds of a record exactly
\* when the record has an age, the age and the literal both read as numbers,
\* and the two numbers stand in the relation op names; the comparison is of
\* numbers and not of texts.
ComparesNumbers ==
  pc = "compare" =>
    out = ( /\ \E i \in 1..Len(arg.row) : arg.row[i].k = age
            /\ knownOf(arg.row[1].v).numeric
            /\ knownOf(arg.A).numeric
            /\ related(arg.B, knownOf(arg.row[1].v).tenths, knownOf(arg.A).tenths) )

\* a stored 100 satisfies age >= 20, which it would not as a text
ComparesNumbersWitness ==
  /\ pc = "compare" /\ out = TRUE
  /\ arg.B = <<">","=">> /\ arg.A = <<"2","0">>
  /\ arg.row = <<[k |-> age, v |-> <<"1","0","0">>]>>

(***************************************************************************)
(* SELECT on its own: SpecSelect draws the rows of the table users, beside *)
(* a table orders that is always the same, and each action is one SELECT   *)
(* on that store.                                                          *)
(***************************************************************************)
orders == <<"o","r","d","e","r","s">>

user_id == <<"u","s","e","r","_","i","d">>

product == <<"p","r","o","d","u","c","t">>

\* the values the column rank is drawn from: numbers and a word
SelectValues == <<OrderValues[1], OrderValues[2], OrderValues[3], OrderValues[7]>>

OrderRows ==
  << <<[k |-> id, v |-> <<"1">>], [k |-> user_id, v |-> <<"1">>], [k |-> product, v |-> <<"L","a","p","t","o","p">>]>>,
     <<[k |-> id, v |-> <<"2">>], [k |-> user_id, v |-> <<"1">>], [k |-> product, v |-> <<"M","o","u","s","e">>]>>,
     <<[k |-> id, v |-> <<"3">>], [k |-> user_id, v |-> <<"2">>], [k |-> product, v |-> <<"K","e","y","b","o","a","r","d">>]>> >>

\* the table users of the drawn values, and the table orders
SelectStore(values) == OrderedStore(values) @@ (orders :> OrderRows)

\* LIMIT tokens, each with the number it stands for
LimitTexts ==
  << [text |-> <<"0">>, n |-> 0], [text |-> <<"1">>, n |-> 1], [text |-> <<"2">>, n |-> 2],
     [text |-> <<"1","0">>, n |-> 10], [text |-> <<"0","0","2">>, n |-> 2] >>

\* the filters, orderings and column lists a LIMIT is combined with
LimitShapes ==
  << [cols |-> <<>>, where |-> <<>>, order |-> <<>>, dir |-> <<>>],
     [cols |-> <<rank>>, where |-> <<"i","d"," ",">"," ","1">>, order |-> <<>>, dir |-> <<>>],
     [cols |-> <<>>, where |-> <<>>, order |-> rank, dir |-> <<"D","E","S","C">>],
     [cols |-> <<>>, where |-> <<"i","d"," ",">"," ","1">>, order |-> rank, dir |-> <<"D","E","S","C">>],
     [cols |-> <<>>, where |-> <<"i","d"," ","<"," ","3"," ","O","R"," ","r","a","n","k"," ","="," ","5">>,
      order |-> rank, dir |-> <<>>] >>

LimitInputs ==
  [n \in 1..(Len(LimitShapes) * Len(LimitTexts)) |->
     SelectStatement(LimitShapes[(n - 1) \div Len(LimitTexts) + 1].cols, users,
                     LimitShapes[(n - 1) \div Len(LimitTexts) + 1].where,
                     LimitShapes[(n - 1) \div Len(LimitTexts) + 1].order,
                     LimitShapes[(n - 1) \div Len(LimitTexts) + 1].dir,
                     LimitTexts[((n - 1) % Len(LimitTexts)) + 1].text)]

\* the statement s without its LIMIT clause
unlimited(s) == SelectStatement(s.cols, s.table, s.where, s.order, s.dir, <<>>)

\* the number a LIMIT token stands for
limitOf(s) == LimitTexts[CHOOSE k \in 1..Len(LimitTexts) : LimitTexts[k].text = s.limit].n

\* LIMIT followed by a token that is not a run of digits
LimitWords == << <<"a","b","c">>, <<"2","x">>, <<"-","1">>, <<"1",".","5">> >>

LimitWordInputs ==
  << SelectStatement(<<>>, users, <<>>, <<>>, <<>>, LimitWords[1]),
     SelectStatement(<<>>, users, <<>>, rank, <<>>, LimitWords[2]),
     SelectStatement(<<>>, users, <<>>, <<>>, <<>>, LimitWords[4]),
     SelectStatement(<<>>, users, <<"i","d"," ",">"," ","1">>, <<>>, <<>>, LimitWords[1]),
     SelectStatement(<<>>, users, <<"i","d"," ",">"," ","1">>, rank, <<"D","E","S","C">>, LimitWords[3]),
     SelectStatement(<<>>, users, <<"i","d"," ",">"," ","1">>, <<>>, <<>>, LimitWords[4]) >>

\* column lists: in another order than stored, one column, a column no
\* record has, written without a blank, and a list on the table orders
ColumnInputs ==
  << SelectStatement(<<rank, id>>, users, <<>>, <<>>, <<>>, <<>>),
     SelectStatement(<<id>>, users, <<>>, rank, <<>>, <<>>),
     SelectStatement(<<name, id>>, users, <<"i","d"," ",">"," ","1">>, <<>>, <<>>, <<>>),
     SelectStatement(<<rank, id>>, users, <<"i","d"," ","<"," ","3">>, rank, <<"D","E","S","C">>, <<"1">>),
     Respelled(SelectStatement(<<id, rank>>, users, <<>>, <<>>, <<>>, <<>>),
               <<"S","E","L","E","C","T"," ","i","d",",","r","a","n","k"," ","F","R","O","M"," ">> \o users),
     SelectStatement(<<product, id>>, orders, <<>>, <<>>, <<>>, <<>>) >>

\* the statement s with * for its column list
starred(s) == SelectStatement(<<>>, s.table, s.where, s.order, s.dir, s.limit)

\* statements whose clauses are separated by line breaks, tabs or several
\* blanks, each kept with the parts of the statement it respells: the
\* documented multi-line query on the columns of this store and as it is
\* documented, then one separator widened at a time
SpacedInputs ==
  << Respelled(SelectStatement(<<rank, id>>, users, <<"(","i","d"," ",">"," ","1"," ","A","N","D"," ","r","a","n","k"," ",">"," ","5",")"," ","O","R"," ","i","d"," ","="," ","1">>, rank, <<"A","S","C">>, <<"1","0">>),
               <<"S","E","L","E","C","T"," ","r","a","n","k",","," ","i","d","\n"," "," ","F","R","O","M"," ","u","s","e","r","s","\n"," "," ","W","H","E","R","E"," ","(","i","d"," ",">"," ","1"," ","A","N","D"," ","r","a","n","k"," ",">"," ","5",")"," ","O","R"," ","i","d"," ","="," ","1","\n"," "," ","O","R","D","E","R"," ","B","Y"," ","r","a","n","k"," ","A","S","C","\n"," "," ","L","I","M","I","T"," ","1","0">>),
     Respelled(SelectStatement(<<name, <<"e","m","a","i","l">>>>, users, <<"(","c","i","t","y"," ","="," ","\"","B","e","r","l","i","n","\""," ","A","N","D"," ","a","g","e"," ",">"," ","2","5",")"," ","O","R"," ","s","t","a","t","u","s"," ","="," ","\"","p","r","e","m","i","u","m","\"">>, name, <<"A","S","C">>, <<"1","0">>),
               <<"\n"," "," ","S","E","L","E","C","T"," ","n","a","m","e",","," ","e","m","a","i","l"," ","\n"," "," ","F","R","O","M"," ","u","s","e","r","s"," ","\n"," "," ","W","H","E","R","E"," ","(","c","i","t","y"," ","="," ","\"","B","e","r","l","i","n","\""," ","A","N","D"," ","a","g","e"," ",">"," ","2","5",")"," ","O","R"," ","s","t","a","t","u","s"," ","="," ","\"","p","r","e","m","i","u","m","\"","\n"," "," ","O","R","D","E","R"," ","B","Y"," ","n","a","m","e"," ","A","S","C","\n"," "," ","L","I","M","I","T"," ","1","0","\n">>),
     Respelled(SelectStatement(<<>>, users, <<>>, <<>>, <<>>, <<>>),
               <<"S","E","L","E","C","T"," "," ","*"," "," ","F","R","O","M"," ","u","s","e","r","s">>),
     Respelled(SelectStatement(<<>>, users, <<"i","d"," ",">"," ","1">>, <<>>, <<>>, <<>>),
               <<"S","E","L","E","C","T"," ","*"," ","F","R","O","M"," ","u","s","e","r","s"," ","W","H","E","R","E"," "," ","i","d"," ",">"," ","1">>),
     Respelled(SelectStatement(<<>>, users, <<>>, <<>>, <<>>, <<>>),
               <<"S","E","L","E","C","T"," ","*"," ","F","R","O","M"," "," ","u","s","e","r","s">>),
     Respelled(SelectStatement(<<>>, users, <<"i","d"," ",">"," ","1">>, <<>>, <<>>, <<>>),
               <<"S","E","L","E","C","T"," ","*"," ","F","R","O","M"," ","u","s","e","r","s"," "," ","W","H","E","R","E"," ","i","d"," ",">"," ","1">>),
     Respelled(SelectStatement(<<>>, users, <<"i","d"," ",">"," ","1">>, <<>>, <<>>, <<>>),
               <<"S","E","L","E","C","T"," ","*"," ","F","R","O","M"," ","u","s","e","r","s","\n","W","H","E","R","E"," ","i","d"," ",">"," ","1">>),
     Respelled(SelectStatement(<<>>, users, <<>>, rank, <<>>, <<>>),
               <<"S","E","L","E","C","T"," ","*"," ","F","R","O","M"," ","u","s","e","r","s"," ","O","R","D","E","R"," "," ","B","Y"," ","r","a","n","k">>),
     Respelled(SelectStatement(<<>>, users, <<>>, rank, <<>>, <<>>),
               <<"S","E","L","E","C","T"," ","*"," ","F","R","O","M"," ","u","s","e","r","s","\t","O","R","D","E","R"," ","B","Y"," ","r","a","n","k">>),
     Respelled(SelectStatement(<<>>, users, <<>>, <<>>, <<>>, <<"1">>),
               <<"S","E","L","E","C","T"," ","*"," ","F","R","O","M"," ","u","s","e","r","s"," ","L","I","M","I","T"," "," ","1">>),
     Respelled(SelectStatement(<<>>, users, <<>>, <<>>, <<>>, <<>>),
               <<"S","E","L","E","C","T"," ","*","\t","F","R","O","M"," ","u","s","e","r","s">>) >>

\* the column f of the table t, as a join's column list names it
Qualified(t, f) == t \o <<".">> \o f

\* SELECT users.rank, orders.product FROM users [INNER] JOIN orders
\*   ON users.id = orders.user_id
JoinInputs ==
  << Respelled(SelectStatement(<<Qualified(users, rank), Qualified(orders, product)>>, users, <<>>, <<>>, <<>>, <<>>),
               <<"S","E","L","E","C","T"," ","u","s","e","r","s",".","r","a","n","k",","," ","o","r","d","e","r","s",".","p","r","o","d","u","c","t"," ","F","R","O","M"," ","u","s","e","r","s"," ","J","O","I","N"," ","o","r","d","e","r","s"," ","O","N"," ","u","s","e","r","s",".","i","d"," ","="," ","o","r","d","e","r","s",".","u","s","e","r","_","i","d">>),
     Respelled(SelectStatement(<<Qualified(users, rank), Qualified(orders, product)>>, users, <<>>, <<>>, <<>>, <<>>),
               <<"S","E","L","E","C","T"," ","u","s","e","r","s",".","r","a","n","k",","," ","o","r","d","e","r","s",".","p","r","o","d","u","c","t"," ","F","R","O","M"," ","u","s","e","r","s"," ","I","N","N","E","R"," ","J","O","I","N"," ","o","r","d","e","r","s"," ","O","N"," ","u","s","e","r","s",".","i","d"," ","="," ","o","r","d","e","r","s",".","u","s","e","r","_","i","d">>) >>

\* the statement s written on one line with single blanks
oneLine(s) == SelectStatement(s.cols, s.table, s.where, s.order, s.dir, s.limit)

\* the statements of one action, each beside the statement it is compared with
Family(at, inputs, others) ==
  [n \in DOMAIN inputs |-> [family |-> at, s |-> inputs[n], other |-> others[n]]]

SelectInputs ==
  Family("limit", LimitInputs, [n \in DOMAIN LimitInputs |-> unlimited(LimitInputs[n])])
    \o Family("limitWord", LimitWordInputs, LimitWordInputs)
    \o Family("columns", ColumnInputs, [n \in DOMAIN ColumnInputs |-> starred(ColumnInputs[n])])
    \o Family("spaced", SpacedInputs, [n \in DOMAIN SpacedInputs |-> oneLine(SpacedInputs[n])])
    \o Family("join", JoinInputs, JoinInputs)

\* the statements with what parseQuery makes of their texts
SelectSubmitted ==
  [n \in DOMAIN SelectInputs |->
     [family |-> SelectInputs[n].family, s |-> SelectInputs[n].s,
      parsed |-> parseQuery(SelectInputs[n].s.text),
      other |-> parseQuery(SelectInputs[n].other.text)]]

InitSelect ==
  /\ arg = SelectSubmitted
  /\ tables \in {SelectStore(values) :
                   values \in UNION {[1..n -> {SelectValues[v] : v \in 1..Len(SelectValues)}] :
                                       n \in 0..MaxSorted}}
  /\ pc = "table"
  /\ out = <<>> /\ stmt = 0 /\ returned = Nothing /\ before = <<>> /\ lastInsert = 0

\* the numbers of the statements of a family
Asked(at) == {n \in DOMAIN arg : arg[n].family = at}

\* query(sql) for statement n, of the family named by at
Ask(n, at) ==
  /\ pc = "table"
  /\ pc' = at
  /\ \E o \in runQuery(tables, arg[n].parsed) :
       /\ tables' = o.tables
       /\ returned' = o.ret
  /\ stmt' = n
  /\ before' = tables
  /\ UNCHANGED <<arg, out, lastInsert>>

Limit == \E n \in Asked("limit") : Ask(n, "limit")

LimitWord == \E n \in Asked("limitWord") : Ask(n, "limitWord")

Columns == \E n \in Asked("columns") : Ask(n, "columns")

Spaced == \E n \in Asked("spaced") : Ask(n, "spaced")

JoinTables == \E n \in Asked("join") : Ask(n, "join")

NextSelect == Limit \/ LimitWord \/ Columns \/ Spaced \/ JoinTables

SpecSelect == InitSelect /\ [][NextSelect]_vars

\* the drawn values of the table users before the statement
ranksBefore == [i \in DOMAIN before[users] |-> Get(before[users][i], rank)]

\* C11: a SELECT with LIMIT n returns the first min(n, k) rows, in their
\* order, of the k rows the same statement returns without its LIMIT, that
\* is of the rows after filtering and ordering; LIMIT 0 returns no rows.
LimitTruncates ==
  pc = "limit" =>
    /\ returned.kind = "rows"
    /\ \E o \in runQuery(before, arg[stmt].other) :
         returned.rows =
           SubSeq(o.ret.rows, 1,
                  IF limitOf(arg[stmt].s) < Len(o.ret.rows)
                  THEN limitOf(arg[stmt].s) ELSE Len(o.ret.rows))
    /\ limitOf(arg[stmt].s) = 0 => returned.rows = <<>>

\* of the ranks 20, 100, 5 the rows after the first, ordered DESC and cut to
\* one row: the row of rank 100, which is the second row stored
LimitTruncatesWitness ==
  /\ pc = "limit"
  /\ ranksBefore = <<<<"2","0">>, <<"1","0","0">>, <<"5">>>>
  /\ arg[stmt].s.where /= <<>> /\ arg[stmt].s.order = rank
  /\ arg[stmt].s.dir = <<"D","E","S","C">> /\ arg[stmt].s.limit = <<"1">>
  /\ returned.rows = <<<<[k |-> id, v |-> <<"2">>], [k |-> rank, v |-> <<"1","0","0">>]>>>>

\* C12: every SELECT whose LIMIT keyword is followed by a token that is not a
\* run of digits fails with "Invalid SELECT syntax" and returns no rows, with
\* or without a WHERE or ORDER BY clause.
LimitWordRejected ==
  pc = "limitWord" => returned = Error("Invalid SELECT syntax", <<>>)

\* C13: a SELECT with a column list returns as many rows, in the same order,
\* as the same statement with *; each row has exactly the listed fields as
\* keys, in the order listed, each with the source record's value for the
\* field, undefined when the record has no such field.
ProjectsColumns ==
  pc = "columns" =>
    /\ returned.kind = "rows"
    /\ \E o \in runQuery(before, arg[stmt].other) :
         /\ Len(returned.rows) = Len(o.ret.rows)
         /\ \A i \in 1..Len(o.ret.rows) :
              returned.rows[i] =
                [j \in 1..Len(arg[stmt].s.cols) |->
                   [k |-> arg[stmt].s.cols[j], v |-> Get(o.ret.rows[i], arg[stmt].s.cols[j])]]

\* name, id of the records (id 1, rank 20), (id 2, rank 100) with id > 1: one
\* row, listing name first with no value and then the id 2
ProjectsColumnsWitness ==
  /\ pc = "columns"
  /\ arg[stmt].s.cols = <<name, id>>
  /\ ranksBefore = <<<<"2","0">>, <<"1","0","0">>>>
  /\ returned.rows = << <<[k |-> name, v |-> Undefined], [k |-> id, v |-> <<"2">>]>> >>

\* C17: a SELECT whose clauses are separated by line breaks or by runs of
\* white space is accepted and returns the rows of the same statement written
\* on one line with single blanks.
SpacedAsOneLine ==
  pc = "spaced" =>
    /\ returned.kind = "rows"
    /\ \E o \in runQuery(before, arg[stmt].other) : returned = o.ret

\* the orders of one user, each as a row of the user's rank and the order's
\* product under their qualified names
ordersOf(user, right) ==
  [i \in 1..Len(SelectSeq(right, LAMBDA o : Get(o, user_id) = Get(user, id))) |->
     <<[k |-> Qualified(users, rank), v |-> Get(user, rank)],
       [k |-> Qualified(orders, product),
        v |-> Get(SelectSeq(right, LAMBDA o : Get(o, user_id) = Get(user, id))[i], product)]>>]

\* the rows of an inner join of users and orders on users.id =
\* orders.user_id: by the users' order, then the orders'
RECURSIVE joined(_, _)
joined(left, right) ==
  IF left = <<>> THEN <<>>
  ELSE ordersOf(Head(left), right) \o joined(Tail(left), right)

\* C18: SELECT users.rank, orders.product FROM users JOIN orders ON users.id
\* = orders.user_id, with or without INNER, returns one row for every pair of
\* a user and an order of that user, keyed by the qualified column names, by
\* the users' order and then the orders'; a user without orders gives no row.
JoinsPairs ==
  pc = "join" => returned = Rows(joined(load(before, users), load(before, orders)))

(***************************************************************************)
(* The evaluation of a filter, step by step: evalWhere as the loops and    *)
(* callbacks of the code, one iteration a step.                            *)
(***************************************************************************)
\* the pieces filters are put together from: a condition, a condition in
\* parentheses, operators with their blanks, single and doubled
\* parentheses, quotes, and texts that are no condition
Fragments ==
  << <<"a","g","e"," ",">"," ","3","0">>,
     <<"(","c","i","t","y"," ","="," ","\"","P","a","r","i","s","\"",")">>,
     <<" ","A","N","D"," ">>,
     <<" ","O","R"," ">>,
     <<"(">>,
     <<")">>,
     <<"(","(">>,
     <<")",")">>,
     <<"\"">>,
     <<"'">>,
     <<"a","g","e"," ","~"," ","3","0">>,
     <<" ">> >>

\* the most pieces of a drawn filter
MaxPieces == 3

\* the filters: every sequence of at most MaxPieces pieces, written out
FilterTexts ==
  {Join([i \in DOMAIN ns |-> Fragments[ns[i]]], <<>>) :
     ns \in UNION {[1..n -> 1..Len(Fragments)] : n \in 0..MaxPieces}}

StepInputs == {[text |-> t, row |-> Records[r]] : t \in FilterTexts, r \in 1..2}

\* stmt is the parity of the steps taken: every step, a turn of a loop
\* that changes nothing included, is a change of state
InitSteps ==
  /\ pc = "where"
  /\ arg \in StepInputs
  /\ out = [orParts |-> <<>>, i |-> 0, andParts |-> <<>>, j |-> 0,
            cleaned |-> <<>>, result |-> FALSE]
  /\ tables = <<>> /\ stmt = 0 /\ returned = Nothing /\ before = <<>> /\ lastInsert = 0

\* const orParts = this.splitLogicalOperator(whereClause, "OR")
SplitOr ==
  /\ pc = "where"
  /\ pc' = "some"
  /\ out' = [out EXCEPT !.orParts = splitLogicalOperator(arg.text, <<"O","R">>), !.i = 1]
  /\ stmt' = 1 - stmt
  /\ UNCHANGED <<arg, tables, returned, before, lastInsert>>

\* orParts.some calls its callback on the next part: cleanPart = orPart.trim()
NextBranch ==
  /\ pc = "some" /\ out.i <= Len(out.orParts)
  /\ pc' = "stripBranch"
  /\ out' = [out EXCEPT !.cleaned = trim(out.orParts[out.i])]
  /\ stmt' = 1 - stmt
  /\ UNCHANGED <<arg, tables, returned, before, lastInsert>>

\* orParts.some has no part left: evalWhere returns false
NoBranch ==
  /\ pc = "some" /\ out.i > Len(out.orParts)
  /\ pc' = "done"
  /\ out' = [out EXCEPT !.result = FALSE]
  /\ stmt' = 1 - stmt
  /\ UNCHANGED <<arg, tables, returned, before, lastInsert>>

\* one turn of the loop that unwraps an OR part
StripBranch ==
  /\ pc = "stripBranch" /\ wrapped(out.cleaned)
  /\ pc' = "stripBranch"
  /\ out' = [out EXCEPT !.cleaned = unwrap(out.cleaned)]
  /\ stmt' = 1 - stmt
  /\ UNCHANGED <<arg, tables, returned, before, lastInsert>>

\* the loop is left: const andParts = this.splitLogicalOperator(cleanPart, "AND")
SplitAnd ==
  /\ pc = "stripBranch" /\ ~wrapped(out.cleaned)
  /\ pc' = "every"
  /\ out' = [out EXCEPT !.andParts = splitLogicalOperator(out.cleaned, <<"A","N","D">>), !.j = 1]
  /\ stmt' = 1 - stmt
  /\ UNCHANGED <<arg, tables, returned, before, lastInsert>>

\* andParts.every calls its callback on the next part: cleanCond = cond.trim()
NextTerm ==
  /\ pc = "every" /\ out.j <= Len(out.andParts)
  /\ pc' = "stripTerm"
  /\ out' = [out EXCEPT !.cleaned = trim(out.andParts[out.j])]
  /\ stmt' = 1 - stmt
  /\ UNCHANGED <<arg, tables, returned, before, lastInsert>>

\* andParts.every has no part left: the callback of some returns true, and
\* evalWhere with it
BranchHolds ==
  /\ pc = "every" /\ out.j > Len(out.andParts)
  /\ pc' = "done"
  /\ out' = [out EXCEPT !.result = TRUE]
  /\ stmt' = 1 - stmt
  /\ UNCHANGED <<arg, tables, returned, before, lastInsert>>

\* one turn of the loop that unwraps an AND part
StripTerm ==
  /\ pc = "stripTerm" /\ wrapped(out.cleaned)
  /\ pc' = "stripTerm"
  /\ out' = [out EXCEPT !.cleaned = unwrap(out.cleaned)]
  /\ stmt' = 1 - stmt
  /\ UNCHANGED <<arg, tables, returned, before, lastInsert>>

\* the loop is left: this.evalCondition(cleanCond, row); a true condition
\* lets every go on, a false one ends it and lets some go on
Condition ==
  /\ pc = "stripTerm" /\ ~wrapped(out.cleaned)
  /\ IF evalCondition(out.cleaned, arg.row)
     THEN pc' = "every" /\ out' = [out EXCEPT !.j = out.j + 1]
     ELSE pc' = "some" /\ out' = [out EXCEPT !.i = out.i + 1]
  /\ stmt' = 1 - stmt
  /\ UNCHANGED <<arg, tables, returned, before, lastInsert>>

NextSteps ==
  \/ SplitOr \/ NextBranch \/ NoBranch \/ StripBranch \/ SplitAnd
  \/ NextTerm \/ BranchHolds \/ StripTerm \/ Condition

SpecSteps == InitSteps /\ [][NextSteps]_vars

\* a step of an evaluation that has not returned
Advance == pc /= "done" /\ stmt' = 1 - stmt

\* the evaluation is one synchronous call: while it has not returned, its
\* next step is taken
FairSteps == SpecSteps /\ WF_stmt(Advance)

\* C22: the evaluation of every filter text, with unbalanced parentheses,
\* unterminated quotes, empty terms or unknown operators, comes to an end
\* and yields a boolean, the one evalWhere gives for the text and the
\* record; no text makes it raise or run for ever.
EvaluationEnds ==
  <>(pc = "done" /\ out.result \in BOOLEAN /\ out.result = evalWhere(arg.text, arg.row))

\* the filter "((age > 30", its parentheses never closed, was evaluated on
\* the record of age 35 and held
EvaluationEndsWitness ==
  /\ pc = "done"
  /\ arg.text = <<"(","(","a","g","e"," ",">"," ","3","0">>
  /\ arg.row = Records[1]
  /\ out.result = TRUE

(***************************************************************************)
(* The logical splitter on its own: splitLogicalOperator on drawn          *)
(* expressions, for AND and for OR.                                        *)
(***************************************************************************)
\* the pieces expressions are put together from: names, halves of a
\* parenthesised and of a quoted operand, quotes, a quote after a backslash,
\* the operator words with and without blanks around them and in lower
\* case, a blank
TermPieces ==
  << <<"a">>,
     <<"b",")">>,
     <<"(","a">>,
     <<"x"," ","="," ","\"","T","o","m">>,
     <<"J","e","r","r","y","\"">>,
     <<"'">>,
     <<" ","A","N","D"," ">>,
     <<" ","O","R"," ">>,
     <<" ","a","n","d"," ">>,
     <<"A","N","D">>,
     <<" ">>,
     <<"\\","\"">>,
     <<"(">> >>

\* the expressions: every sequence of at most MaxPieces pieces, written out
TermTexts ==
  {Join([i \in DOMAIN ns |-> TermPieces[ns[i]]], <<>>) :
     ns \in UNION {[1..n -> 1..Len(TermPieces)] : n \in 0..MaxPieces}}

TermInputs == {[expr |-> e, op |-> o] : e \in TermTexts, o \in {<<"A","N","D">>, <<"O","R">>}}

InitTerms ==
  /\ pc = "expression"
  /\ arg \in TermInputs
  /\ out = <<>>
  /\ tables = <<>> /\ stmt = 0 /\ returned = Nothing /\ before = <<>> /\ lastInsert = 0

\* this.splitLogicalOperator(expr, op)
SplitTerms ==
  /\ pc = "expression"
  /\ pc' = "terms"
  /\ out' = splitLogicalOperator(arg.expr, arg.op)
  /\ UNCHANGED <<arg, tables, stmt, returned, before, lastInsert>>

NextTerms == SplitTerms

SpecTerms == InitTerms /\ [][NextTerms]_vars

\* the scanner's reading of one more character c, the one before it being
\* a backslash or not: a quote opens a span, the same quote closes it, and
\* outside a span a parenthesis changes the depth
scannerTakes(s, c, escaped) ==
  IF s.quote = "" /\ isQuote(c) /\ ~escaped THEN [s EXCEPT !.quote = c]
  ELSE IF s.quote /= "" /\ c = s.quote /\ ~escaped THEN [s EXCEPT !.quote = ""]
  ELSE IF s.quote = "" /\ c = "(" THEN [s EXCEPT !.depth = @ + 1]
  ELSE IF s.quote = "" /\ c = ")" THEN [s EXCEPT !.depth = @ - 1]
  ELSE s

\* where the scanner is after the first n characters of expr: the quote of
\* the span it is in ("" outside any) and the parenthesis depth
RECURSIVE scannerAfter(_, _)
scannerAfter(expr, n) ==
  IF n = 0 THEN [quote |-> "", depth |-> 0]
  ELSE scannerTakes(scannerAfter(expr, n - 1), expr[n], n > 1 /\ expr[n - 1] = "\\")

\* the first position from i on that holds no white space
pastBlanks(expr, i) ==
  SetMin({j \in i..(Len(expr) + 1) : j > Len(expr) \/ ~isSpace(expr[j])})

\* the operator word, in any case, is written at position j
wordAt(expr, op, j) ==
  /\ j + Len(op) - 1 <= Len(expr)
  /\ toUpperCase(SubSeq(expr, j, j + Len(op) - 1)) = op

\* an occurrence of the operator surrounded by white space begins at
\* position i: white space from i on, the word, white space
occurrenceAt(expr, op, i) ==
  /\ isSpace(expr[i])
  /\ wordAt(expr, op, pastBlanks(expr, i))
  /\ pastBlanks(expr, i) + Len(op) <= Len(expr)
  /\ isSpace(expr[pastBlanks(expr, i) + Len(op)])

\* the first position after the occurrence that begins at i
occurrenceEnd(expr, op, i) == pastBlanks(expr, pastBlanks(expr, i) + Len(op))

\* a split point: an occurrence where the scanner is outside any quoted
\* span and at depth 0
splitPoint(expr, op, i) ==
  /\ occurrenceAt(expr, op, i)
  /\ scannerAfter(expr, i).quote = ""
  /\ scannerAfter(expr, i).depth = 0

splitPointsFrom(expr, op, from) == {i \in from..Len(expr) : splitPoint(expr, op, i)}

\* the split points taken from left to right, each after the end of the one
\* before it
RECURSIVE cutsFrom(_, _, _)
cutsFrom(expr, op, from) ==
  IF splitPointsFrom(expr, op, from) = {} THEN <<>>
  ELSE <<SetMin(splitPointsFrom(expr, op, from))>>
         \o cutsFrom(expr, op, occurrenceEnd(expr, op, SetMin(splitPointsFrom(expr, op, from))))

\* the trimmed texts before, between and after the cuts, the last one left
\* out when it is empty
between(expr, op, cuts) ==
  [k \in 1..(Len(cuts) + 1) |->
     trim(SubSeq(expr,
                 IF k = 1 THEN 1 ELSE occurrenceEnd(expr, op, cuts[k - 1]),
                 IF k > Len(cuts) THEN Len(expr) ELSE cuts[k] - 1))]

cutTerms(expr, op, cuts) == pushRest(SubSeq(between(expr, op, cuts), 1, Len(cuts)),
                                     between(expr, op, cuts)[Len(cuts) + 1])

\* the one term of an expression with no split point: the trimmed
\* expression, and the expression as it is when it is white space only
oneTerm(expr) == IF trim(expr) = <<>> THEN <<expr>> ELSE <<trim(expr)>>

\* C23 as stated: the split of an expression is never empty, it is split
\* only at occurrences of the operator that are surrounded by white space,
\* outside any quoted span and at depth 0, and an expression with no such
\* occurrence yields one term, the trimmed expression.
SplitsAtDepthZeroTrimmed ==
  pc = "terms" =>
    /\ out /= <<>>
    /\ out = IF cutsFrom(arg.expr, arg.op, 1) = <<>> THEN <<trim(arg.expr)>>
             ELSE cutTerms(arg.expr, arg.op, cutsFrom(arg.expr, arg.op, 1))

\* C23: the split of an expression is never empty, it is split only at
\* occurrences of the operator that are surrounded by white space, outside
\* any quoted span and at depth 0, and an expression with no such occurrence
\* yields one term: the trimmed expression, or the expression untrimmed when
\* it is white space only.
SplitsAtDepthZero ==
  pc = "terms" =>
    /\ out /= <<>>
    /\ out = IF cutsFrom(arg.expr, arg.op, 1) = <<>> THEN oneTerm(arg.expr)
             ELSE cutTerms(arg.expr, arg.op, cutsFrom(arg.expr, arg.op, 1))

\* x = "Tom AND Jerry" was split on AND and is one term
SplitsAtDepthZeroWitness ==
  /\ pc = "terms"
  /\ arg.op = <<"A","N","D">>
  /\ arg.expr = <<"x"," ","="," ","\"","T","o","m"," ","A","N","D"," ","J","e","r","r","y","\"">>
  /\ out = <<arg.expr>>

(***************************************************************************)
(* The table file as text.  save writes JSON.stringify(data, null, 2): an  *)
(* array of objects whose values are strings, indented by two blanks.      *)
(* load parses what the file holds.  The texts a file can hold are those   *)
(* that save writes, whole, and what one write over another leaves of      *)
(* them; JSONparse reads these.                                            *)
(***************************************************************************)
\* the characters of a string as JSON.stringify writes them between quotes
RECURSIVE escaped(_)
escaped(s) ==
  IF s = <<>> THEN <<>>
  ELSE (CASE s[1] = "\"" -> <<"\\", "\"">>
          [] s[1] = "\\" -> <<"\\", "\\">>
          [] s[1] = "\n" -> <<"\\", "n">>
          [] s[1] = "\t" -> <<"\\", "t">>
          [] OTHER -> <<s[1]>>) \o escaped(Tail(s))

\* an object of the array: its keys in their order, each on a line of its own
objectText(row) ==
  IF row = <<>> THEN <<"{","}">>
  ELSE <<"{","\n">>
       \o Join([i \in 1..Len(row) |->
                  <<" "," "," "," ","\"">> \o escaped(row[i].k) \o <<"\"",":"," ","\"">>
                    \o escaped(String(row[i].v)) \o <<"\"">>],
               <<",","\n">>)
       \o <<"\n"," "," ","}">>

\* JSON.stringify(data, null, 2); a key whose value is undefined or a
\* function is left out
JSONstringify(data) ==
  IF data = <<>> THEN <<"[","]">>
  ELSE <<"[","\n">>
       \o Join([i \in 1..Len(data) |-> <<" "," ">> \o objectText(SelectSeqRow(data[i]))],
               <<",","\n">>)
       \o <<"\n","]">>

\* the place of the quote that ends the string opened at p: the first quote
\* after p with an even number of backslashes right before it; 0 when the
\* string does not end
stringEnd(text, p) ==
  LET closes(q) ==
        /\ text[q] = "\""
        /\ (q - 1 - SetMax({p} \cup {i \in (p + 1)..(q - 1) : text[i] /= "\\"})) % 2 = 0
  IN  IF \E q \in (p + 1)..Len(text) : closes(q)
      THEN SetMin({q \in (p + 1)..Len(text) : closes(q)})
      ELSE 0

\* the string that the characters between the quotes stand for
RECURSIVE unescaped(_)
unescaped(s) ==
  IF s = <<>> THEN <<>>
  ELSE IF s[1] = "\\" /\ Len(s) > 1
  THEN <<(CASE s[2] = "n" -> "\n" [] s[2] = "t" -> "\t" [] OTHER -> s[2])>>
       \o unescaped(SubSeq(s, 3, Len(s)))
  ELSE <<s[1]>> \o unescaped(Tail(s))

\* the position as a decimal text
RECURSIVE decimalText(_)
decimalText(n) ==
  IF n < 10 THEN <<DigitSeq[n + 1]>>
  ELSE decimalText(n \div 10) \o <<DigitSeq[(n % 10) + 1]>>

\* The members of an object from p on, p being at the first key: "key":
\* "value", then a comma and the next member, or the closing brace.  A key
\* read twice keeps its first place and its last value.  A line break or a
\* tab inside a string is no JSON.
RECURSIVE scanMembers(_, _, _)
scanMembers(text, p, row) ==
  LET keyEnd == stringEnd(text, p)
      colon  == keyEnd + 1 + runLength(Cls("s"), text, keyEnd + 1)
      value  == colon + 1 + runLength(Cls("s"), text, colon + 1)
      valEnd == stringEnd(text, value)
      after  == valEnd + 1 + runLength(Cls("s"), text, valEnd + 1)
      member == Define(row, unescaped(SubSeq(text, p + 1, keyEnd - 1)),
                       unescaped(SubSeq(text, value + 1, valEnd - 1)))
  IN  IF \/ p > Len(text) \/ text[p] /= "\"" \/ keyEnd = 0
         \/ colon > Len(text) \/ text[colon] /= ":"
         \/ value > Len(text) \/ text[value] /= "\"" \/ valEnd = 0
         \/ after > Len(text)
         \/ \E i \in p..valEnd : text[i] \in {"\n", "\t"} /\ (i < keyEnd \/ i > value)
      THEN [ok |-> FALSE, next |-> 0, row |-> <<>>]
      ELSE IF text[after] = "}" THEN [ok |-> TRUE, next |-> after + 1, row |-> member]
      ELSE IF text[after] = ","
      THEN scanMembers(text, after + 1 + runLength(Cls("s"), text, after + 1), member)
      ELSE [ok |-> FALSE, next |-> 0, row |-> <<>>]

\* the object at p: an opening brace and the closing one, or members between
scanObject(text, p) ==
  LET first == p + 1 + runLength(Cls("s"), text, p + 1)
  IN  IF p > Len(text) \/ text[p] /= "{" THEN [ok |-> FALSE, next |-> 0, row |-> <<>>]
      ELSE IF first <= Len(text) /\ text[first] = "}"
      THEN [ok |-> TRUE, next |-> first + 1, row |-> <<>>]
      ELSE scanMembers(text, first, <<>>)

\* The objects of an array after data, object being what the scan of the
\* next one gave: after an object a comma and the next object, or the
\* closing bracket.
RECURSIVE scanObjects(_, _, _)
scanObjects(text, data, object) ==
  LET after == object.next + runLength(Cls("s"), text, object.next)
  IN  IF ~object.ok \/ after > Len(text)
      THEN [ok |-> FALSE, next |-> 0, data |-> <<>>]
      ELSE IF text[after] = "]"
      THEN [ok |-> TRUE, next |-> after + 1, data |-> Append(data, object.row)]
      ELSE IF text[after] = ","
      THEN scanObjects(text, Append(data, object.row),
                       scanObject(text, after + 1 + runLength(Cls("s"), text, after + 1)))
      ELSE [ok |-> FALSE, next |-> 0, data |-> <<>>]

\* a parse that finds an empty array in every text
parseNothing(text) == [ok |-> TRUE, data |-> <<>>, error |-> Nothing]

\* JSON.parse(text): the array the text stands for, or the SyntaxError
\* it throws: for a text with nothing in it but white space, for a text with
\* something other than white space after the array (the place is counted
\* from 0), and for any other text that is no array of objects.
JSONparse(text) ==
  LET open  == 1 + runLength(Cls("s"), text, 1)
      first == open + 1 + runLength(Cls("s"), text, open + 1)
      array == IF first <= Len(text) /\ text[first] = "]"
               THEN [ok |-> TRUE, next |-> first + 1, data |-> <<>>]
               ELSE scanObjects(text, <<>>, scanObject(text, first))
      rest  == array.next + runLength(Cls("s"), text, array.next)
  IN  IF open > Len(text)
      THEN [ok |-> FALSE, data |-> <<>>,
            error |-> Error("SyntaxError: Unexpected end of JSON input", <<>>)]
      ELSE IF text[open] /= "[" \/ ~array.ok
      THEN [ok |-> FALSE, data |-> <<>>,
            error |-> Error("SyntaxError: not valid JSON", <<>>)]
      ELSE IF rest <= Len(text)
      THEN [ok |-> FALSE, data |-> <<>>,
            error |-> Error("SyntaxError: Unexpected non-whitespace character after JSON at position",
                            decimalText(rest - 1))]
      ELSE [ok |-> TRUE, data |-> array.data, error |-> Nothing]

(***************************************************************************)
(* Two callers on one directory, each a process of its own.  A write       *)
(* statement is a load of the whole table (the file is looked for and, if  *)
(* it is there, read and parsed), the handler's change of the loaded       *)
(* array, and a save of the whole table: the file is opened, which empties *)
(* it, and the text is written from its start.  readFileSync reads the     *)
(* file in pieces, each from where the last one ended, until a read gives  *)
(* nothing; a piece is as much as the file holds from there on (the texts  *)
(* here are shorter than the 8192 bytes a read asks for).  Between any two *)
(* of these steps, the reads included, the other caller may run.  tables   *)
(* maps the name of every table                                            *)
(* file that exists to the text it holds; arg holds the parse of every     *)
(* statement the callers submit; pc[c] is where caller c is, and out holds *)
(* for each caller the statement it runs (running), the number of its      *)
(* calls (calls), what it has read of the file so far (buffer), what its   *)
(* load gave (local) and what the handler makes of                         *)
(* that (result); the statements that returned, in the order of their      *)
(* return (log), and the store they leave when each runs alone in that     *)
(* order (serial); the text of the last save that ended (last), stmt being *)
(* its caller; whether a call ever began while the other caller was in one *)
(* (overlapped), and whether a caller ever opened the file while the other *)
(* had it open (clashed).  returned is what the last call that ended       *)
(* returned or threw.                                                      *)
(***************************************************************************)
Callers == {1, 2}

\* the most calls of one caller
MaxWrites == 2

\* the statements of Inputs that each caller submits, all on users: caller 1
\* the first INSERT, caller 2 the second INSERT, an UPDATE with a filter and
\* the DELETE of every record
CallerInputs == [c \in Callers |-> IF c = 1 THEN {1} ELSE {2, 5, 8}]

InitCallers ==
  /\ tables = <<>>
  /\ pc = [c \in Callers |-> "idle"]
  /\ arg = [n \in UNION {CallerInputs[c] : c \in Callers} |-> parseQuery(Inputs[n].text)]
  /\ out = [running |-> [c \in Callers |-> 0], calls |-> [c \in Callers |-> 0],
            buffer |-> [c \in Callers |-> <<>>],
            local |-> [c \in Callers |-> [ok |-> TRUE, data |-> <<>>, error |-> Nothing]],
            result |-> [c \in Callers |-> [tables |-> <<>>, ret |-> Nothing]],
            log |-> <<>>, serial |-> <<>>, last |-> <<>>,
            overlapped |-> FALSE, clashed |-> FALSE]
  /\ stmt = 0 /\ returned = Nothing /\ before = <<>> /\ lastInsert = 0

\* what a statement's handler returns and saves: the handler run on the store
\* tbls
handled(tbls, p) == CHOOSE o \in runQuery(tbls, p) : TRUE

\* the call of query(Inputs[n].text) begins; load: if (!existsSync(p)) return []
Load(c, n) ==
  /\ pc[c] = "idle"
  /\ out.calls[c] < MaxWrites
  /\ pc' = [pc EXCEPT ![c] = IF arg[n].table \in DOMAIN tables THEN "found" ELSE "loaded"]
  /\ out' = [out EXCEPT !.running[c] = n,
                        !.calls[c] = @ + 1,
                        !.buffer[c] = <<>>,
                        !.local[c] = [ok |-> TRUE, data |-> <<>>, error |-> Nothing],
                        !.overlapped = @ \/ \E d \in Callers \ {c} : pc[d] /= "idle"]
  /\ UNCHANGED <<tables, arg, stmt, returned, before, lastInsert>>

\* load: return JSON.parse(readFileSync(p, "utf8")).  One read of
\* readFileSync: what the file holds by now after the place the reads have
\* reached is added to what was read; a read that gives nothing ends the
\* reading, and JSON.parse is given what was read: a text that is no JSON
\* ends the call with the SyntaxError
Read(c) ==
  /\ pc[c] = "found"
  /\ out' = [out EXCEPT
               !.buffer[c] = @ \o SubSeq(tables[arg[out.running[c]].table], Len(@) + 1,
                                         Len(tables[arg[out.running[c]].table])),
               !.local[c] = IF Len(tables[arg[out.running[c]].table]) > Len(out.buffer[c])
                            THEN @ ELSE JSONparse(out.buffer[c])]
  /\ pc' = [pc EXCEPT ![c] = IF Len(out'.buffer[c]) > Len(out.buffer[c]) THEN "found"
                             ELSE IF out'.local[c].ok THEN "loaded" ELSE "idle"]
  /\ returned' = IF Len(out'.buffer[c]) > Len(out.buffer[c]) \/ out'.local[c].ok
                 THEN returned ELSE out'.local[c].error
  /\ UNCHANGED <<tables, arg, stmt, before, lastInsert>>

\* the handler's change of the array it loaded; save: writeFileSync opens
\* the file, which creates it or cuts it to nothing
Open(c) ==
  /\ pc[c] = "loaded"
  /\ pc' = [pc EXCEPT ![c] = "opened"]
  /\ tables' = [t \in DOMAIN tables \cup {arg[out.running[c]].table} |->
                  IF t = arg[out.running[c]].table THEN <<>> ELSE tables[t]]
  /\ out' = [out EXCEPT
               !.result[c] = handled([t \in {arg[out.running[c]].table} |-> out.local[c].data],
                                     arg[out.running[c]]),
               !.clashed = @ \/ \E d \in Callers \ {c} : pc[d] = "opened"]
  /\ UNCHANGED <<arg, stmt, returned, before, lastInsert>>

\* writeFileSync writes JSON.stringify(data, null, 2) from the start of the
\* file, over what the file holds by then, and closes it; the call returns
Save(c) ==
  /\ pc[c] = "opened"
  /\ pc' = [pc EXCEPT ![c] = "idle"]
  /\ out' = [out EXCEPT !.log = Append(@, [caller |-> c, n |-> out.running[c]]),
                        !.serial = handled(@, arg[out.running[c]]).tables,
                        !.last = JSONstringify(out.result[c].tables[arg[out.running[c]].table])]
  /\ tables' = [tables EXCEPT ![arg[out.running[c]].table] =
                  out'.last \o SubSeq(@, Len(out'.last) + 1, Len(@))]
  /\ returned' = out.result[c].ret
  /\ before' = tables
  /\ stmt' = c
  /\ UNCHANGED <<arg, lastInsert>>

NextCallers ==
  \/ \E c \in Callers : \E n \in CallerInputs[c] : Load(c, n)
  \/ \E c \in Callers : Read(c)
  \/ \E c \in Callers : Open(c)
  \/ \E c \in Callers : Save(c)

SpecCallers == InitCallers /\ [][NextCallers]_vars

\* no caller is between the opening of the file and the end of its write
quiet == \A c \in Callers : pc[c] /= "opened"

\* the file of users holds the text
fileIs(text) == users \in DOMAIN tables /\ tables[users] = text

\* The statement of C27 as it is written: no write is lost while the calls
\* are one after the other, and whenever a save has ended the table is what
\* the last save wrote, however the calls interleave.
LaterSaveOverwrites ==
  /\ (~out.overlapped /\ quiet) =>
        /\ returned.kind /= "error"
        /\ IF users \in DOMAIN out.serial THEN fileIs(JSONstringify(out.serial[users]))
           ELSE users \notin DOMAIN tables
  /\ (stmt /= 0 /\ quiet) => fileIs(out.last)

\* C27: as long as no call begins while the other caller is in one, no
\* write is lost and no call throws: the table is what the statements that
\* returned leave when each runs alone, in the order of their return.
\* However the calls interleave, as long as no caller opens the file while
\* the other has it open, the table is what the last save that ended wrote
\* from the array its caller loaded, whatever the table held by then.
WritesKeptAlone ==
  /\ (~out.overlapped /\ quiet) =>
        /\ returned.kind /= "error"
        /\ IF users \in DOMAIN out.serial THEN fileIs(JSONstringify(out.serial[users]))
           ELSE users \notin DOMAIN tables
  /\ (stmt /= 0 /\ quiet /\ ~out.clashed) => fileIs(out.last)

\* both callers loaded before either saved, both INSERTs returned their
\* record, no save ran into the other, and the table holds the record of the
\* later save only: the record of the first is lost
WritesKeptAloneWitness ==
  /\ \A c \in Callers : pc[c] = "idle"
  /\ out.overlapped /\ ~out.clashed
  /\ Len(out.log) = 2
  /\ out.log[1].caller /= out.log[2].caller
  /\ \A i \in 1..2 : arg[out.log[i].n].cmd = "insert"
  /\ fileIs(JSONstringify(<<arg[out.log[2].n].row>>))
  /\ JSONparse(tables[users]).data = <<arg[out.log[2].n].row>>
  /\ Len(out.serial[users]) = 2

====
